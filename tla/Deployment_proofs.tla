-------------------------- MODULE Deployment_proofs --------------------------
(***************************************************************************)
(* What holds of the deployment of any manifest, whatever the kernel makes *)
(* of a request: the planner asserts in vain only where a table is given,  *)
(* inspect confirms what deploy has verified, what it calls deployed has   *)
(* no difference and what it does not call so has one that says why, the   *)
(* snapshot passes the check that every later command makes, no block of   *)
(* configure_node undoes what an earlier one did, and inspect tells a      *)
(* change exactly if the plan speaks of what was changed.                  *)
(***************************************************************************)
EXTENDS Deployment, FiniteSetTheorems, TLAPS

(* The snapshot deploy writes once it has verified the topology.            *)
Recorded == SnapshotFor(manifest, "deployed", IdsOf(plan, inventory))

(* The inductive invariant: what is known at each stage.                    *)
Known1 ==
  /\ pc \in {"compile", "crashed"} => Accepted(manifest)
  /\ pc = "crashed" => ~Compiles(manifest)
  /\ pc = "deployed" => Matches(plan, inventory) /\ recorded = Recorded

LEMMA InitKnown == Init => Known1
  BY DEF Init, Known1, Nodes

(* The steps that neither begin nor end in a stage the invariant is about.  *)
Early == {"compile", "crashed", "deployed"}
LEMMA LateStages ==
  ASSUME pc' \notin Early
  PROVE  Known1'
  BY DEF Early, Known1

LEMMA NextKnown == Known1 /\ [Next]_vars => Known1'
<1> SUFFICES ASSUME Known1, [Next]_vars PROVE Known1'
  OBVIOUS
<1>1. CASE Refuse
  BY <1>1 DEF Refuse, Known1, Nodes
<1>2. CASE Accept
  BY <1>2 DEF Accept, Known1, Nodes
<1>3. CASE Crash
  BY <1>3 DEF Crash, Known1, Nodes
<1>4. CASE Compile
  BY <1>4, LateStages DEF Compile, Early
<1>5. CASE CreateNamespaces \/ CreateBridges \/ CreatePairs
  BY <1>5, LateStages DEF CreateNamespaces, CreateBridges, CreatePairs, Step, Early
<1>6. CASE Proceed
  BY <1>6, LateStages DEF Proceed, Steps, Early
<1>7. CASE StartNode \/ Configure
  BY <1>7, LateStages DEF StartNode, Configure, After, Blocks, Early
<1>8. CASE StartRouting
  BY <1>8, LateStages DEF StartRouting, Early
<1>9. CASE Verify
  BY <1>9 DEF Verify, Known1, Recorded, plan, inventory
<1>10. CASE Drift \/ Lose \/ Replace \/ Strand
  BY <1>10, LateStages DEF Drift, Lose, Replace, Strand, Early
<1>11. CASE UNCHANGED vars
  BY <1>11 DEF vars, Known1, Nodes, Recorded, plan, inventory
<1>12. CASE Finished
  BY <1>12, <1>11 DEF Finished
<1> QED
  BY <1>1, <1>2, <1>3, <1>4, <1>5, <1>6, <1>7, <1>8, <1>9, <1>10, <1>11, <1>12 DEF Next

(* Whatever gets past the validators and the planner is what they accept,   *)
(* and what is called deployed is what the verification found and wrote.    *)
THEOREM KnownAlways == Spec => []Known1
  BY InitKnown, NextKnown, PTL DEF Spec

-----------------------------------------------------------------------------
(* The assertion of compile_plan fails only for a route whose table is      *)
(* given although its next hops are in different VRFs.                      *)
CrashIsExplicit ==
  pc = "crashed" =>
    \E n \in Nodes : \E route \in Range(manifest.nodes[n].routes) :
      route.table # None /\ ~Infers(manifest.nodes[n], route)
(* It is all the assertion can fail of, whatever the manifest.              *)
THEOREM CrashesAreExplicit == Spec => []CrashIsExplicit
<1>1. Known1 => CrashIsExplicit
  <2> SUFFICES ASSUME Accepted(manifest), ~Compiles(manifest)
               PROVE  \E n \in Nodes : \E route \in Range(manifest.nodes[n].routes) :
                        route.table # None /\ ~Infers(manifest.nodes[n], route)
    BY DEF Known1, CrashIsExplicit
  <2>0. PICK n \in Nodes : \E k \in DOMAIN manifest.nodes[n].routes :
               ~Infers(manifest.nodes[n], manifest.nodes[n].routes[k])
    BY DEF Compiles, Nodes, Range
  <2>1. PICK k \in DOMAIN manifest.nodes[n].routes :
               ~Infers(manifest.nodes[n], manifest.nodes[n].routes[k])
    BY <2>0
  <2>2. RoutesByTable(manifest.nodes[n])
    BY <2>0 DEF Accepted, ValidNode, Nodes
  <2>3. OneTable(manifest.nodes[n], manifest.nodes[n].routes[k])
    BY <2>1, <2>2 DEF RoutesByTable
  <2>4. manifest.nodes[n].routes[k].table # None
    BY <2>1, <2>3 DEF OneTable, Infers
  <2> QED
    BY <2>1, <2>4 DEF Range
<1> QED
  BY <1>1, KnownAlways, PTL

(* inspect calls deployed what deploy has verified.                         *)
LEMMA NamespacesOfNodes == DOMAIN inventory.namespaces = Nodes
  BY DEF inventory, Inventory, plan, Plan, Nodes

LEMMA VerifiedIsRecorded ==
  ASSUME NEW p, NEW inv, LinksMatch(p, inv)
  PROVE  RecordedMatch(p, inv, Ownership(p, IdsOf(p, inv)))
<1> SUFFICES ASSUME NEW e \in LinkEnds(p)
             PROVE  Ownership(p, IdsOf(p, inv))[e].link_id = LinkId(inv, e)
  BY DEF RecordedMatch
<1>1. e \in Owned(p)
  BY DEF Owned
<1>2. Ownership(p, IdsOf(p, inv))[e].link_id = IdsOf(p, inv)[e]
  BY <1>1 DEF Ownership
<1> QED
  BY <1>2 DEF IdsOf

(* What deploy has verified, inspect calls deployed (stale without nodes),  *)
(* whatever the manifest: lifecycle.py:231-269 and inspector.py:1826-1849.  *)
THEOREM DeployedIsReportedAlways == Spec => []DeployedIsReported
<1>1. Known1 => DeployedIsReported
  <2> SUFFICES ASSUME Matches(plan, inventory), recorded = Recorded
               PROVE  Status(plan, inventory, recorded)
                        = IF Nodes = {} THEN "stale" ELSE "deployed"
    BY DEF Known1, DeployedIsReported, report, Inspect
  <2>1. RecordedMatch(plan, inventory, recorded.owned)
    BY VerifiedIsRecorded DEF Matches, Recorded, SnapshotFor, plan
  <2>2. IsAbsent(inventory) <=> Nodes = {}
    BY NamespacesOfNodes DEF IsAbsent, Matches, plan, Plan, Nodes
  <2> QED
    BY <2>1, <2>2 DEF Status, Recorded, SnapshotFor
<1> QED
  BY <1>1, KnownAlways, PTL

-----------------------------------------------------------------------------
(* The two judgements of inspect, for any plan, inventory and snapshot.     *)

(* Shaped ends are as they were asked for, with nothing rounded.            *)
Exact(p, inv) ==
  \A n \in DOMAIN p.nodes : \A i \in ExpectedNames(p, n) \cap DOMAIN inv.namespaces[n].interfaces :
    LET desired == Expected(p, n, i).qdisc
        observed == inv.namespaces[n].interfaces[i].qdisc IN
    QdiscMatches(desired, observed) => desired = observed

LEMMA MatchingDoesNotDiffer ==
  ASSUME NEW desired, NEW observed, InterfaceMatches(desired, observed),
         desired.qdisc = observed.qdisc
  PROVE  CompareInterface(desired, observed) = {}
<1>1. \A f \in Compared(desired) : desired[f] = observed[f]
  BY DEF InterfaceMatches, Compared, Allows
<1>2. \A f \in Compared(desired) : Text(desired, f) = Text(observed, f)
  BY <1>1 DEF Text, Compared
<1>3. \A s \in DOMAIN NoPort : desired.port[s] \in {None, observed.port[s]}
  BY DEF InterfaceMatches, Allows
<1>4. CASE observed.data = desired.data
  BY <1>2, <1>3, <1>4 DEF CompareInterface
<1>5. CASE /\ desired.kind = "geneve" /\ observed.data.link = None
           /\ observed.data = [desired.data EXCEPT !.link = None]
           /\ observed.data # desired.data
  <2>1. observed.kind = "geneve"
    BY <1>5 DEF InterfaceMatches
  <2>2. \A f \in (DOMAIN observed.data) \ {"link"} : observed.data[f] = desired.data[f]
    BY <1>5
  <2> QED
    BY <1>2, <1>3, <1>5, <2>1, <2>2 DEF CompareInterface
<1> QED
  BY <1>4, <1>5 DEF InterfaceMatches, DataMatches

LEMMA NoNodeDiffers ==
  ASSUME NEW p, NEW inv, NEW n \in DOMAIN p.nodes, Matches(p, inv), Exact(p, inv)
  PROVE  NodeDifferences(p, n, inv.namespaces[n]) = {}
<1> DEFINE seen == inv.namespaces[n]
<1>1. /\ seen.exists /\ InterfacesMatch(p, n, seen.interfaces)
      /\ RoutesMatch(p.nodes[n], seen.routes) /\ seen.rules = p.nodes[n].rules
      /\ NeighborsMatch(p.nodes[n].neighbors, seen.neighbors)
      /\ SysctlsMatch(p.nodes[n], seen.sysctls)
  BY DEF Matches
<1>2. \A i \in ExpectedNames(p, n) :
        CompareInterface(Expected(p, n, i), seen.interfaces[i]) = {}
  <2> SUFFICES ASSUME NEW i \in ExpectedNames(p, n)
               PROVE  CompareInterface(Expected(p, n, i), seen.interfaces[i]) = {}
    OBVIOUS
  <2>1. InterfaceMatches(Expected(p, n, i), seen.interfaces[i]) /\ i \in DOMAIN seen.interfaces
    BY <1>1 DEF InterfacesMatch
  <2>2. Expected(p, n, i).qdisc = seen.interfaces[i].qdisc
    BY <2>1 DEF Exact, InterfaceMatches
  <2> QED
    BY <2>1, <2>2, MatchingDoesNotDiffer
<1>3. DOMAIN seen.interfaces \ Ignored(p.nodes[n]) = ExpectedNames(p, n)
  BY <1>1 DEF InterfacesMatch
<1>4. InterfaceDifferences(p, n, seen.interfaces) = {}
  BY <1>2, <1>3 DEF InterfaceDifferences, Desired
<1> QED
  BY <1>1, <1>4 DEF NodeDifferences

LEMMA NoLinkDiffers ==
  ASSUME NEW p, NEW inv, NEW k \in DOMAIN p.links, LinksMatch(p, inv)
  PROVE  LinkPresent(p, inv, k)
<1> DEFINE id == LinkId(inv, p.links[k].left)
<1>1. id # None /\ LinkId(inv, p.links[k].right) = id /\ Group(inv, id) = EndsOf(p.links[k])
  BY DEF LinksMatch
<1>2. EndsOf(p.links[k]) \subseteq Veths(inv)
  BY <1>1 DEF Group
<1> QED
  BY <1>1, <1>2 DEF LinkPresent

(* What inspect calls deployed, it reports without a difference.            *)
THEOREM DeployedHasNoDifference ==
  ASSUME NEW p, NEW inv, NEW snapshot,
         Status(p, inv, snapshot) = "deployed", Exact(p, inv)
  PROVE  Inspect(p, inv, snapshot).differences = {}
<1>1. /\ snapshot.status = "deployed" /\ Matches(p, inv)
      /\ RecordedMatch(p, inv, snapshot.owned)
  BY DEF Status
<1>2. LiveDifferences(p, inv) = {}
  <2>1. inv.root = {} /\ LinksMatch(p, inv)
    BY <1>1 DEF Matches
  <2>2. {l \in DOMAIN p.links : ~LinkPresent(p, inv, l)} = {}
    BY <2>1, NoLinkDiffers
  <2>3. UNION {NodeDifferences(p, n, inv.namespaces[n]) : n \in DOMAIN p.nodes} = {}
    BY <1>1, NoNodeDiffers
  <2> QED
    BY <2>1, <2>2, <2>3 DEF LiveDifferences
<1>3. \A k \in DOMAIN p.links : \A e \in EndsOf(p.links[k]) :
        snapshot.owned[e].link_id = LinkId(inv, e)
  BY <1>1 DEF RecordedMatch, LinkEnds, Range
<1>4. StateDifferences(p, inv, snapshot) = {}
  BY <1>1, <1>3 DEF StateDifferences
<1> QED
  BY <1>2, <1>4 DEF Inspect

(* The texts that inspect compares tell apart what the first comparison     *)
(* tells apart: the VLANs of a port listed by number, the options of a      *)
(* simple qdisc; and links of one kind have the same attributes.            *)
SameFieldsOf(d, e) == DOMAIN d = DOMAIN e /\ e = [f \in DOMAIN e |-> e[f]]
Legible(desired, observed) ==
  /\ VlanText(desired.vlans) = VlanText(observed.vlans) => desired.vlans = observed.vlans
  /\ QdiscText(desired.qdisc) = QdiscText(observed.qdisc) => QdiscMatches(desired.qdisc, observed.qdisc)
  /\ desired.kind = observed.kind => SameFieldsOf(desired.data, observed.data)
AllLegible(p, inv) ==
  \A n \in DOMAIN p.nodes : inv.namespaces[n].exists =>
    \A i \in ExpectedNames(p, n) \cap DOMAIN inv.namespaces[n].interfaces :
      Legible(Expected(p, n, i), inv.namespaces[n].interfaces[i])

(* What the daemons of a node make is none of the plan's interfaces, and no *)
(* veth; none of the plan's devices is one.                                 *)
Apart(p, inv) ==
  \A n \in DOMAIN p.nodes :
    /\ ExpectedNames(p, n) \cap Ignored(p.nodes[n]) = {}
    /\ \A i \in DOMAIN inv.namespaces[n].interfaces \cap Ignored(p.nodes[n]) :
         inv.namespaces[n].interfaces[i].kind # "veth"
    /\ \A d \in DOMAIN p.nodes[n].devices : p.nodes[n].devices[d].type # "veth"

(* Each part of the first comparison of an interface has its counterpart   *)
(* in the second.                                                           *)
LEMMA MismatchIsTold ==
  ASSUME NEW desired, NEW observed, Legible(desired, observed),
         ~InterfaceMatches(desired, observed)
  PROVE  CompareInterface(desired, observed) # {}
<1> DEFINE told == CompareInterface(desired, observed)
<1>1. {f \in Compared(desired) : Text(desired, f) # Text(observed, f)} \subseteq told
  BY DEF CompareInterface
<1>2. ASSUME NEW f \in {"kind", "master", "up", "addrs", "stp", "vlan_filtering", "vlans"},
             observed[f] # desired[f]
      PROVE  told # {}
  <2>1. f \in Compared(desired)
    BY DEF Compared
  <2>2. Text(desired, f) # Text(observed, f)
    BY <1>2 DEF Text, Legible
  <2> QED
    BY <1>1, <2>1, <2>2
<1>3. ASSUME NEW f \in {"mtu", "mac", "priority"}, ~Allows(desired[f], observed[f])
      PROVE  told # {}
  <2>1. f \in Compared(desired)
    BY <1>3 DEF Compared, Allows
  <2>2. Text(desired, f) # Text(observed, f)
    BY <1>3 DEF Text, Allows
  <2> QED
    BY <1>1, <2>1, <2>2
<1>4. ASSUME NEW s \in DOMAIN NoPort, ~Allows(desired.port[s], observed.port[s])
      PROVE  told # {}
  <2>1. s \in {t \in DOMAIN NoPort : desired.port[t] \notin {None, observed.port[t]}}
    BY <1>4 DEF Allows
  <2> QED
    BY <2>1 DEF CompareInterface
<1>5. CASE ~QdiscMatches(desired.qdisc, observed.qdisc)
  <2>1. "qdisc" \in Compared(desired)
    BY DEF Compared
  <2>2. Text(desired, "qdisc") # Text(observed, "qdisc")
    BY <1>5 DEF Text, Legible
  <2> QED
    BY <1>1, <2>1, <2>2
<1>6. CASE ~DataMatches(desired, observed) /\ desired.kind = observed.kind
  <2>1. observed.data # desired.data
    BY <1>6 DEF DataMatches
  <2>2. CASE desired.kind = "geneve" /\ observed.data.link = None
    <3> DEFINE Others == {f \in (DOMAIN observed.data) \ {"link"} :
                            observed.data[f] # desired.data[f]}
    <3>1. Others \subseteq told
      BY <1>6, <2>1, <2>2 DEF CompareInterface
    <3>2. ASSUME Others = {} PROVE FALSE
      <4>1. observed.data = [f \in DOMAIN desired.data |-> observed.data[f]]
        BY <1>6 DEF Legible, SameFieldsOf
      <4>2. \A f \in DOMAIN desired.data :
              observed.data[f] = IF f = "link" THEN None ELSE desired.data[f]
        BY <1>6, <2>2, <3>2 DEF Legible, SameFieldsOf
      <4>3. observed.data = [desired.data EXCEPT !.link = None]
        BY <4>1, <4>2
      <4> QED
        BY <1>6, <2>2, <4>3 DEF DataMatches
    <3> QED
      BY <3>1, <3>2
  <2>3. CASE ~(desired.kind = "geneve" /\ observed.data.link = None)
    BY <1>6, <2>1, <2>3 DEF CompareInterface
  <2> QED
    BY <2>2, <2>3
<1> QED
  BY <1>2, <1>3, <1>4, <1>5, <1>6 DEF InterfaceMatches

(* So has each part of that of a node.                                      *)
LEMMA NodeMismatchIsTold ==
  ASSUME NEW p, NEW inv, NEW n \in DOMAIN p.nodes, AllLegible(p, inv), Apart(p, inv),
         NodeDifferences(p, n, inv.namespaces[n]) = {}
  PROVE  LET node == p.nodes[n] seen == inv.namespaces[n] IN
         /\ seen.exists
         /\ InterfacesMatch(p, n, seen.interfaces)
         /\ RoutesMatch(node, seen.routes)
         /\ seen.rules = node.rules
         /\ NeighborsMatch(node.neighbors, seen.neighbors)
         /\ SysctlsMatch(node, seen.sysctls)
<1> DEFINE node == p.nodes[n]
           seen == inv.namespaces[n]
           expected == ExpectedNames(p, n)
<1>1. seen.exists
  BY DEF NodeDifferences
<1>2. /\ InterfaceDifferences(p, n, seen.interfaces) = {}
      /\ RoutesMatch(node, seen.routes) /\ seen.rules = node.rules
      /\ NeighborsMatch(node.neighbors, seen.neighbors)
      /\ SysctlsMatch(node, seen.sysctls)
  BY <1>1 DEF NodeDifferences
<1>3. /\ expected \subseteq DOMAIN seen.interfaces
      /\ DOMAIN seen.interfaces \subseteq expected \cup Ignored(node)
  BY <1>2 DEF InterfaceDifferences
<1>4. DOMAIN seen.interfaces \ Ignored(node) = expected
  BY <1>3 DEF Apart
<1>5. ASSUME NEW i \in expected PROVE InterfaceMatches(Expected(p, n, i), seen.interfaces[i])
  <2>1. i \in expected \cap DOMAIN seen.interfaces
    BY <1>3
  <2>2. CompareInterface(Expected(p, n, i), seen.interfaces[i]) = {}
    <3>1. {InterfaceDifference(n, i, f) : f \in CompareInterface(Desired(p, n, i), seen.interfaces[i])}
            \subseteq InterfaceDifferences(p, n, seen.interfaces)
      BY <2>1 DEF InterfaceDifferences
    <3> QED
      BY <1>2, <3>1 DEF Desired
  <2> QED
    BY <1>1, <2>1, <2>2, MismatchIsTold DEF AllLegible
<1> QED
  BY <1>1, <1>2, <1>4, <1>5 DEF InterfacesMatch

(* The first also looks at veths that are no end of a link; there is none   *)
(* where no interface differs.                                              *)
LEMMA LinkMismatchIsTold ==
  ASSUME NEW p, NEW inv, \A k \in DOMAIN p.links : LinkPresent(p, inv, k),
         \A e \in Veths(inv) : \E k \in DOMAIN p.links : e \in EndsOf(p.links[k])
  PROVE  LinksMatch(p, inv)
<1>1. ASSUME NEW k \in DOMAIN p.links
      PROVE  LET left == LinkId(inv, p.links[k].left) IN
             /\ left # None /\ LinkId(inv, p.links[k].right) = left
             /\ Group(inv, left) = EndsOf(p.links[k])
  BY DEF LinkPresent
<1>2. ASSUME NEW e \in Veths(inv) PROVE LinkId(inv, e) # None
  <2>1. PICK k \in DOMAIN p.links : e \in EndsOf(p.links[k])
    OBVIOUS
  <2>2. e \in Group(inv, LinkId(inv, p.links[k].left))
    BY <1>1, <2>1
  <2> QED
    BY <1>1, <2>2 DEF Group
<1> QED
  BY <1>1, <1>2 DEF LinksMatch

LEMMA VethsAreEnds ==
  ASSUME NEW p, NEW inv, NEW n \in DOMAIN p.nodes, Apart(p, inv),
         InterfacesMatch(p, n, inv.namespaces[n].interfaces),
         \A k \in DOMAIN p.links : EndsOf(p.links[k]) \subseteq Veths(inv),
         NEW i \in DOMAIN inv.namespaces[n].interfaces,
         inv.namespaces[n].interfaces[i].kind = "veth"
  PROVE  \E k \in DOMAIN p.links : <<n, i>> \in EndsOf(p.links[k])
<1>1. i \in ExpectedNames(p, n)
  BY DEF Apart, InterfacesMatch
<1>2. Expected(p, n, i).kind = "veth"
  BY <1>1 DEF InterfacesMatch, InterfaceMatches
<1>3. i \in Linked(p.links, n)
  <2>1. i # "lo"
    BY <1>2 DEF Expected, Loopback, Plain
  <2>2. ASSUME i \in DOMAIN p.nodes[n].devices PROVE FALSE
    <3>1. Expected(p, n, i).kind = ExpectedDevice(p, n, i).kind
      BY <2>1, <2>2 DEF Expected, ExpectedDevice, Plain
    <3>2. ExpectedDevice(p, n, i).kind = p.nodes[n].devices[i].type
      BY DEF ExpectedDevice, Plain
    <3> QED
      BY <1>2, <2>2, <3>1, <3>2 DEF Apart
  <2>3. ASSUME i \notin Linked(p.links, n) PROVE FALSE
    <3>1. Expected(p, n, i).kind = ExpectedBridge(p.nodes[n]).kind
      BY <2>1, <2>2, <2>3 DEF Expected, ExpectedBridge, Plain
    <3> QED
      BY <1>2, <3>1 DEF ExpectedBridge, Plain
  <2> QED
    BY <2>3
<1>4. PICK k \in DOMAIN p.links : \E e \in EndsOf(p.links[k]) : e[1] = n /\ e[2] = i
  BY <1>3 DEF Linked
<1>5. \A e \in Veths(inv) : e = <<e[1], e[2]>>
  BY DEF Veths
<1> QED
  BY <1>4, <1>5

(* Of the plan of an accepted manifest the first part of Apart is true: no  *)
(* interface has the name of what the daemons of its node make, although    *)
(* the validators look for it among the endpoints and devices with          *)
(* addresses only (manifest.py:1230, 1998).                                 *)
THEOREM RuntimeNamesAreFree ==
  ASSUME NEW m, Accepted(m), NEW n \in DOMAIN m.nodes
  PROVE  ExpectedNames(Plan(m), n) \cap Ignored(Plan(m).nodes[n]) = {}
<1> DEFINE node == m.nodes[n]
           planned == Plan(m).nodes[n]
<1>1. /\ planned.kind = node.kind /\ planned.bridge = node.bridge
      /\ planned.routing = node.routing /\ DOMAIN planned.devices = DOMAIN node.devices
      /\ Plan(m).links = m.links
  BY DEF Plan, CompileNode
<1> SUFFICES ASSUME node.routing # None, node.routing.pim # None
             PROVE  "pimreg" \notin ExpectedNames(Plan(m), n)
  BY <1>1 DEF Ignored
<1>2. ValidNode(node) /\ ValidReferences(m, n)
  BY DEF Accepted
<1>3. "pimreg" \notin Available(m, n)
  BY <1>2 DEF ValidReferences, ValidRouters
<1>4. OfType(node, "vrf") = {}
  BY <1>2 DEF ValidNode, ValidLinux, ValidBridgeNode
<1>5. DOMAIN node.devices \subseteq Available(m, n)
  BY <1>4 DEF Available, Addressed
<1> QED
  BY <1>1, <1>3, <1>5 DEF ExpectedNames, Available

(* A topology that inspect does not call deployed has a difference that     *)
(* says why: the placeholder inventory.match is never needed                *)
(* (inspector.py:1828-1869).                                                *)
THEOREM VerdictsHaveReasons ==
  ASSUME NEW p, NEW inv, NEW snapshot,
         DOMAIN inv.namespaces = DOMAIN p.nodes, DOMAIN p.nodes # {},
         AllLegible(p, inv), Apart(p, inv),
         Inspect(p, inv, snapshot).status \in {"degraded", "stale"}
  PROVE  /\ Inspect(p, inv, snapshot).differences # {}
         /\ Inspect(p, inv, snapshot).differences
              = LiveDifferences(p, inv) \cup StateDifferences(p, inv, snapshot)
<1> DEFINE found == LiveDifferences(p, inv) \cup StateDifferences(p, inv, snapshot)
<1> SUFFICES ASSUME found = {} PROVE FALSE
  BY DEF Inspect
<1>1. /\ inv.root = {}
      /\ \A n \in DOMAIN p.nodes : NodeDifferences(p, n, inv.namespaces[n]) = {}
      /\ \A k \in DOMAIN p.links : LinkPresent(p, inv, k)
  <2>1. ASSUME NEW e \in inv.root PROVE FALSE
    <3> DEFINE Stranded == {InterfaceDifference(f[1], f[2], "root_temporary.present") : f \in inv.root}
    <3>1. InterfaceDifference(e[1], e[2], "root_temporary.present") \in Stranded
      OBVIOUS
    <3>2. \A x \in Stranded : x \in LiveDifferences(p, inv)
      BY DEF LiveDifferences, InterfaceDifference
    <3> QED
      BY <3>1, <3>2
  <2>2. ASSUME NEW n \in DOMAIN p.nodes PROVE NodeDifferences(p, n, inv.namespaces[n]) \subseteq found
    BY DEF LiveDifferences
  <2>3. ASSUME NEW k \in DOMAIN p.links, ~LinkPresent(p, inv, k) PROVE FALSE
    <3> DEFINE left == p.links[k].left
               Gone == {p.links[j].left : j \in {l \in DOMAIN p.links : ~LinkPresent(p, inv, l)}}
               Reported == {InterfaceDifference(e[1], e[2], "link") : e \in Gone}
    <3>1. left \in Gone
      BY <2>3
    <3>2. InterfaceDifference(left[1], left[2], "link") \in Reported
      BY <3>1
    <3>3. \A x \in Reported : x \in LiveDifferences(p, inv)
      BY DEF LiveDifferences, InterfaceDifference
    <3> QED
      BY <3>2, <3>3
  <2> QED
    BY <2>1, <2>2, <2>3
<1>2. ~IsAbsent(inv)
  BY <1>1, NodeMismatchIsTold DEF IsAbsent
<1>3. snapshot.status = "deployed"
  BY <1>2 DEF StateDifferences
<1>4. Matches(p, inv)
  <2>1. ASSUME NEW e \in Veths(inv)
        PROVE  \E k \in DOMAIN p.links : e \in EndsOf(p.links[k])
    <3>1. PICK n \in DOMAIN inv.namespaces :
                \E i \in DOMAIN inv.namespaces[n].interfaces :
                   e = <<n, i>> /\ inv.namespaces[n].interfaces[i].kind = "veth"
      BY DEF Veths
    <3>2. PICK i \in DOMAIN inv.namespaces[n].interfaces :
                   e = <<n, i>> /\ inv.namespaces[n].interfaces[i].kind = "veth"
      BY <3>1
    <3>3. n \in DOMAIN p.nodes /\ InterfacesMatch(p, n, inv.namespaces[n].interfaces)
      BY <1>1, NodeMismatchIsTold
    <3>4. \A k \in DOMAIN p.links : EndsOf(p.links[k]) \subseteq Veths(inv)
      BY <1>1 DEF LinkPresent
    <3> QED
      BY <3>2, <3>3, <3>4, VethsAreEnds
  <2>2. LinksMatch(p, inv)
    BY <1>1, <2>1, LinkMismatchIsTold
  <2> QED
    BY <1>1, <2>2, NodeMismatchIsTold DEF Matches
<1>5. RecordedMatch(p, inv, snapshot.owned)
  <2>1. \A k \in DOMAIN p.links : \A e \in EndsOf(p.links[k]) :
          snapshot.owned[e].link_id = LinkId(inv, e)
    BY <1>3 DEF StateDifferences
  <2>2. LinksMatch(p, inv)
    BY <1>4 DEF Matches
  <2> QED
    BY <2>1, <2>2 DEF RecordedMatch, LinkEnds, Range
<1> QED
  BY <1>2, <1>3, <1>4, <1>5 DEF Inspect, Status

-----------------------------------------------------------------------------
(* What deploy records.  normalized_manifest fills in defaults of bonds:    *)
(* the operators the validators and the planner are built from read the     *)
(* fields it leaves alone, or make of the others what they make of the      *)
(* defaults.                                                                *)

(* What normalized_manifest makes of a node.                                *)
NormalizedNode(node) ==
  [node EXCEPT !.devices = [d \in DOMAIN @ |-> NormalizedDevice(@[d])]]
Defaulted == {"lacp_rate", "xmit_hash_policy", "min_links"}

(* norm is node but for what its 802.3ad bonds leave open.                  *)
SameDevice(d, e) ==
  /\ e.type = d.type
  /\ d.type # "bond" => e = d
  /\ d.type = "bond" => \A f \in BondFields \ Defaulted : e[f] = d[f]
Same(node, norm) ==
  /\ \A f \in NodeFields \ {"devices"} : norm[f] = node[f]
  /\ DOMAIN norm.devices = DOMAIN node.devices
  /\ \A d \in DOMAIN node.devices : SameDevice(node.devices[d], norm.devices[d])

(* A device keeps its fields, but for the defaults of an 802.3ad bond.      *)
LEMMA NormalizedDevices ==
  ASSUME NEW d, d.type = "bond" => BondFields \subseteq DOMAIN d
  PROVE  /\ NormalizedDevice(d).type = d.type
         /\ d.type # "bond" => NormalizedDevice(d) = d
         /\ d.type = "bond" => \A f \in BondFields \ Defaulted : NormalizedDevice(d)[f] = d[f]
         /\ BondFields \subseteq DOMAIN d => BondFields \subseteq DOMAIN NormalizedDevice(d)
         /\ NormalizedDevice(NormalizedDevice(d)) = NormalizedDevice(d)
         /\ CompileDevice(NormalizedDevice(d)) = CompileDevice(d)
<1>1. CASE d.type = "bond" /\ d.mode = "802.3ad"
  <2> DEFINE e == NormalizedDevice(d)
  <2>1. e = [d EXCEPT !.lacp_rate        = IF @ = None THEN "slow" ELSE @,
                      !.xmit_hash_policy = IF @ = None THEN "layer2" ELSE @,
                      !.min_links        = IF @ = None THEN 0 ELSE @]
    BY <1>1 DEF NormalizedDevice
  <2>2. DOMAIN e = DOMAIN d /\ \A f \in DOMAIN d \ Defaulted : e[f] = d[f]
    BY <2>1 DEF Defaulted
  <2>3. e.type = "bond" /\ e.mode = "802.3ad"
    BY <1>1, <2>2 DEF BondFields, Defaulted
  <2> QED
    BY ZenonT(40), <1>1, <2>1, <2>2, <2>3 DEF NormalizedDevice, CompileDevice, Default, BondFields, Defaulted
<1>2. CASE ~(d.type = "bond" /\ d.mode = "802.3ad")
  BY <1>2 DEF NormalizedDevice
<1> QED
  BY <1>1, <1>2

(* A node keeps its fields, and its devices are normalized.                 *)
LEMMA NormalizedNodes ==
  ASSUME NEW node, IsNode(node)
  PROVE  /\ \A f \in NodeFields \ {"devices"} : NormalizedNode(node)[f] = node[f]
         /\ DOMAIN NormalizedNode(node).devices = DOMAIN node.devices
         /\ \A d \in DOMAIN node.devices :
              NormalizedNode(node).devices[d] = NormalizedDevice(node.devices[d])
  BY DEF IsNode, NodeFields, NormalizedNode

(* Bonds have the fields of bonds.                                          *)
LEMMA BondsHaveFields ==
  ASSUME NEW node, IsNode(node), NEW d \in OfType(node, "bond")
  PROVE  /\ BondFields \subseteq DOMAIN node.devices[d]
         /\ node.devices[d].interfaces \in Seq(Range(node.devices[d].interfaces))
<1>1. IsDevice(node.devices[d]) /\ node.devices[d].type = "bond"
  BY DEF IsNode, OfType
<1> QED
  BY <1>1 DEF IsDevice, IsSequence

(* In the words of Same.                                                    *)
LEMMA NormalizedIsSame ==
  ASSUME NEW node, IsNode(node)
  PROVE  Same(node, NormalizedNode(node))
<1>1. ASSUME NEW d \in DOMAIN node.devices
      PROVE  SameDevice(node.devices[d], NormalizedDevice(node.devices[d]))
  <2>1. node.devices[d].type = "bond" => BondFields \subseteq DOMAIN node.devices[d]
    BY BondsHaveFields DEF OfType
  <2> QED BY <2>1, NormalizedDevices DEF SameDevice
<1> QED BY <1>1, NormalizedNodes DEF Same

(* Where the fields are.                                                    *)
LEMMA SameFields ==
  ASSUME NEW node, NEW norm, Same(node, norm)
  PROVE  /\ norm.kind = node.kind /\ norm.interfaces = node.interfaces
         /\ norm.routes = node.routes /\ norm.neighbors = node.neighbors
         /\ norm.rules = node.rules /\ norm.sysctls = node.sysctls
         /\ norm.routing = node.routing /\ norm.bridge = node.bridge
  BY DEF Same, NodeFields

(* What the fields of a device are read for, a bond's included.             *)
LEMMA SameBonds ==
  ASSUME NEW d, NEW e, SameDevice(d, e)
  PROVE  /\ e.type = d.type
         /\ d.type # "bond" => e = d
         /\ e.addrs = d.addrs /\ e.mac = d.mac /\ e.interfaces = d.interfaces
         /\ d.type = "bond" => e.mode = d.mode /\ e.primary = d.primary
  BY DEF SameDevice, BondFields, Defaulted

(* The devices of a type, and the ones with addresses, are the same,        *)
LEMMA SameTypes ==
  ASSUME NEW node, NEW norm, Same(node, norm)
  PROVE  /\ \A t : OfType(norm, t) = OfType(node, t)
         /\ Addressed(norm) = Addressed(node)
<1>1. \A t : OfType(norm, t) = OfType(node, t)
  <2> SUFFICES ASSUME NEW t PROVE OfType(norm, t) = OfType(node, t)
    OBVIOUS
  <2> QED BY DEF Same, SameDevice, OfType
<1> QED BY <1>1 DEF Addressed, Same

(* so are the addresses,                                                    *)
LEMMA SameAddresses ==
  ASSUME NEW node, NEW norm, Same(node, norm), NEW i
  PROVE  AddressesOf(norm, i) = AddressesOf(node, i)
<1>1. Addressed(norm) = Addressed(node) /\ norm.interfaces = node.interfaces
  BY SameTypes, SameFields
<1>2. i \in Addressed(node) => norm.devices[i].addrs = node.devices[i].addrs
  BY SameBonds DEF Same, Addressed
<1> QED BY <1>1, <1>2 DEF AddressesOf

(* and the members and tables of VRFs and bonds.                            *)
LEMMA SameMembers ==
  ASSUME NEW node, NEW norm, Same(node, norm)
  PROVE  /\ \A i : VrfOf(norm, i) = VrfOf(node, i) /\ BondOf(norm, i) = BondOf(node, i)
         /\ \A i : VrfTable(norm, i) = VrfTable(node, i)
         /\ \A r : VrfTables(norm, r) = VrfTables(node, r)
<1>1. \A d \in DOMAIN node.devices : norm.devices[d].interfaces = node.devices[d].interfaces
  BY SameBonds DEF Same
<1>2. \A t : OfType(norm, t) = OfType(node, t) /\ OfType(node, t) \subseteq DOMAIN node.devices
  BY SameTypes DEF OfType
<1>3. ASSUME NEW i PROVE VrfOf(norm, i) = VrfOf(node, i) /\ BondOf(norm, i) = BondOf(node, i)
  BY <1>1, <1>2 DEF VrfOf, BondOf
<1>4. ASSUME NEW i PROVE VrfTable(norm, i) = VrfTable(node, i)
  <2>1. CASE VrfOf(node, i) = {}
    BY <1>3, <2>1 DEF VrfTable
  <2>2. CASE VrfOf(node, i) # {}
    <3> DEFINE AnyOf(S) == CHOOSE f \in S : TRUE
    <3>1. AnyOf(VrfOf(node, i)) \in VrfOf(node, i)
      BY <2>2
    <3>2. /\ VrfTable(node, i) = node.devices[AnyOf(VrfOf(node, i))].table
          /\ VrfTable(norm, i) = norm.devices[AnyOf(VrfOf(norm, i))].table
      BY <1>3, <2>2 DEF VrfTable
    <3> HIDE DEF AnyOf
    <3>3. AnyOf(VrfOf(node, i)) \in OfType(node, "vrf")
      BY <3>1 DEF VrfOf
    <3>4. norm.devices[AnyOf(VrfOf(node, i))] = node.devices[AnyOf(VrfOf(node, i))]
      BY <3>3 DEF Same, SameDevice, OfType
    <3>5. AnyOf(VrfOf(norm, i)) = AnyOf(VrfOf(node, i))
      BY <1>3
    <3> QED BY <3>2, <3>4, <3>5
  <2> QED BY <2>1, <2>2
<1>5. ASSUME NEW r PROVE VrfTables(norm, r) = VrfTables(node, r)
  BY <1>4 DEF VrfTables
<1> QED BY <1>3, <1>4, <1>5

(* What the validators ask of a device, a normalized one meets.             *)
LEMMA NormalizedDeviceIsValid ==
  ASSUME NEW d, d.type = "bond" => /\ BondFields \subseteq DOMAIN d
                                   /\ d.interfaces \in Seq(Range(d.interfaces)),
         ValidDevice(d)
  PROVE  ValidDevice(NormalizedDevice(d))
<1>1. CASE d.type = "bond" /\ d.mode = "802.3ad"
  <2> DEFINE e == NormalizedDevice(d)
  <2>1. e = [d EXCEPT !.lacp_rate        = IF @ = None THEN "slow" ELSE @,
                      !.xmit_hash_policy = IF @ = None THEN "layer2" ELSE @,
                      !.min_links        = IF @ = None THEN 0 ELSE @]
    BY <1>1 DEF NormalizedDevice
  <2>2. /\ e.type = "bond" /\ e.mode = "802.3ad"
        /\ e.interfaces = d.interfaces /\ e.primary = d.primary
        /\ e.min_links = IF d.min_links = None THEN 0 ELSE d.min_links
    BY <1>1, <2>1 DEF BondFields
  <2>3. ValidBond(d) /\ Len(d.interfaces) \in Nat
    BY <1>1 DEF ValidDevice
  <2> HIDE DEF e
  <2>4. e.min_links # None => e.min_links <= Len(e.interfaces)
    <3>1. CASE d.min_links = None
      <4>1. 0 <= Len(d.interfaces)
        BY <2>3
      <4> QED BY <2>2, <3>1, <4>1
    <3>2. CASE d.min_links # None
      BY <2>2, <2>3, <3>2 DEF ValidBond
    <3> QED BY <3>1, <3>2
  <2>5. ValidBond(e)
    BY <1>1, <2>2, <2>3, <2>4 DEF ValidBond
  <2> QED
    BY <2>2, <2>5 DEF ValidDevice, e
<1>2. CASE ~(d.type = "bond" /\ d.mode = "802.3ad")
  BY <1>2 DEF NormalizedDevice
<1> QED
  BY <1>1, <1>2

(* Fields no other device has are where they were.                          *)
LEMMA SameTables ==
  ASSUME NEW node, NEW norm, Same(node, norm), NEW type \in {"vlan", "vxlan", "geneve", "vrf"}
  PROVE  \A d \in OfType(node, type) : norm.devices[d] = node.devices[d]
  BY DEF Same, SameDevice, OfType

(* And of the devices of a node together: tunnels by their VNI,             *)
LEMMA SameVnis ==
  ASSUME NEW node, NEW norm, Same(node, norm), VnisApart(node)
  PROVE  VnisApart(norm)
<1> SUFFICES ASSUME NEW type \in {"vxlan", "geneve"}
             PROVE  IsInjective([d \in OfType(norm, type) |-> norm.devices[d].vni])
  BY DEF VnisApart
<1>1. OfType(norm, type) = OfType(node, type)
  BY SameTypes
<1>2. \A d \in OfType(node, type) : norm.devices[d] = node.devices[d]
  BY SameTables
<1>3. [d \in OfType(norm, type) |-> norm.devices[d].vni]
        = [d \in OfType(node, type) |-> node.devices[d].vni]
  BY <1>1, <1>2
<1> QED BY <1>3 DEF VnisApart

(* VLANs by their tag,                                                      *)
LEMMA SameVlans ==
  ASSUME NEW node, NEW norm, Same(node, norm)
  PROVE  [d \in OfType(norm, "vlan") |-> <<norm.devices[d].link, norm.devices[d].id>>]
           = [d \in OfType(node, "vlan") |-> <<node.devices[d].link, node.devices[d].id>>]
<1>1. OfType(norm, "vlan") = OfType(node, "vlan")
  BY SameTypes
<1>2. \A d \in OfType(node, "vlan") : norm.devices[d] = node.devices[d]
  BY SameTables
<1> QED BY <1>1, <1>2

(* VRFs by their table and members,                                         *)
LEMMA SameVrfs ==
  ASSUME NEW node, NEW norm, Same(node, norm), VrfMembers(node)
  PROVE  VrfMembers(norm)
<1>1. OfType(norm, "vrf") = OfType(node, "vrf") /\ OfType(norm, "bond") = OfType(node, "bond")
  BY SameTypes
<1>2. \A d \in OfType(node, "vrf") : norm.devices[d] = node.devices[d]
  BY SameTables
<1>3. [d \in OfType(norm, "vrf") |-> norm.devices[d].table]
        = [d \in OfType(node, "vrf") |-> node.devices[d].table]
  BY <1>1, <1>2
<1>4. \A i : VrfOf(norm, i) = VrfOf(node, i) /\ BondOf(norm, i) = BondOf(node, i)
  BY SameMembers
<1>5. IsInjective([d \in OfType(norm, "vrf") |-> norm.devices[d].table])
  BY <1>3 DEF VrfMembers
<1>6. ASSUME NEW f \in OfType(norm, "vrf"), NEW i \in Range(norm.devices[f].interfaces)
      PROVE  /\ i \notin OfType(norm, "vrf") \cup OfType(norm, "bond")
             /\ BondOf(norm, i) = {} /\ VrfOf(norm, i) = {f}
  BY <1>1, <1>2, <1>4 DEF VrfMembers
<1> QED BY <1>5, <1>6 DEF VrfMembers

(* and bonds by their members.                                              *)
LEMMA SameBondMembers ==
  ASSUME NEW node, NEW norm, Same(node, norm), BondMembers(node)
  PROVE  BondMembers(norm)
<1> SUFFICES ASSUME NEW b \in OfType(norm, "bond"), NEW i \in Range(norm.devices[b].interfaces)
             PROVE  /\ i \notin DOMAIN norm.devices
                    /\ AddressesOf(norm, i) = {} /\ BondOf(norm, i) = {b}
  BY DEF BondMembers
<1>1. b \in OfType(node, "bond") /\ b \in DOMAIN node.devices
  BY SameTypes DEF OfType
<1>2. norm.devices[b].interfaces = node.devices[b].interfaces
  BY <1>1, SameBonds DEF Same
<1>3. i \notin DOMAIN node.devices /\ AddressesOf(node, i) = {} /\ BondOf(node, i) = {b}
  BY <1>1, <1>2 DEF BondMembers
<1> QED BY <1>3, SameMembers, SameAddresses DEF Same

(* What they ask of its routes.                                             *)
LEMMA SameRouteTables ==
  ASSUME NEW node, NEW norm, Same(node, norm), NEW r
  PROVE  /\ RouteTable(norm, r) = RouteTable(node, r)
         /\ OneTable(norm, r) <=> OneTable(node, r)
         /\ Infers(norm, r) <=> Infers(node, r)
         /\ CompileRoute(norm, r) = CompileRoute(node, r)
<1> DEFINE AnyOf(S) == CHOOSE t \in S : TRUE
<1>1. VrfTables(norm, r) = VrfTables(node, r)
  BY SameMembers
<1>2. /\ RouteTable(norm, r) = IF r.table # None THEN r.table ELSE AnyOf(VrfTables(norm, r))
      /\ RouteTable(node, r) = IF r.table # None THEN r.table ELSE AnyOf(VrfTables(node, r))
  BY DEF RouteTable
<1> HIDE DEF AnyOf
<1>3. RouteTable(norm, r) = RouteTable(node, r)
  BY <1>1, <1>2
<1> QED BY <1>1, <1>3 DEF OneTable, Infers, CompileRoute

(* So what the validators ask of the routes together holds.                 *)
LEMMA SameRoutes ==
  ASSUME NEW node, NEW norm, Same(node, norm), RoutesByTable(node)
  PROVE  RoutesByTable(norm)
<1> DEFINE Pairs(nd) == UNION {{<<VrfTable(nd, i), Net(a)>> : a \in AddressesOf(nd, i)} :
                                 i \in DOMAIN nd.interfaces \cup Addressed(nd)}
           Id(nd, k) == <<RouteTable(nd, nd.routes[k]), nd.routes[k].dst>>
           Good(nd) == \A k \in DOMAIN nd.routes :
              /\ OneTable(nd, nd.routes[k]) /\ Id(nd, k) \notin Pairs(nd)
              /\ \A l \in DOMAIN nd.routes : Id(nd, l) = Id(nd, k) => l = k
<1>1. \A nd : RoutesByTable(nd) <=> Good(nd)
  BY DEF RoutesByTable
<1>2. /\ norm.routes = node.routes /\ norm.interfaces = node.interfaces
      /\ Addressed(norm) = Addressed(node)
  BY SameFields, SameTypes
<1>3. \A i : VrfTable(norm, i) = VrfTable(node, i) /\ AddressesOf(norm, i) = AddressesOf(node, i)
  BY SameMembers, SameAddresses
<1>4. Pairs(norm) = Pairs(node)
  BY <1>2, <1>3
<1>5. \A k : Id(norm, k) = Id(node, k)
  BY <1>2, SameRouteTables
<1>6. \A k : OneTable(norm, norm.routes[k]) <=> OneTable(node, node.routes[k])
  BY <1>2, SameRouteTables
<1> HIDE DEF Pairs, Id
<1>7. Good(norm)
  BY <1>1, <1>2, <1>4, <1>5, <1>6
<1> QED BY <1>1, <1>7

(* A linux node stays valid,                                                *)
LEMMA SameLinux ==
  ASSUME NEW node, NEW norm, Same(node, norm), ValidLinux(node)
  PROVE  ValidLinux(norm)
<1>1. norm.rules = node.rules /\ norm.routing = node.routing /\ norm.routes = node.routes
  BY SameFields
<1>2. \A t : OfType(norm, t) = OfType(node, t)
  BY SameTypes
<1>3. ASSUME NEW d \in Addressed(norm), norm.devices[d].type \in {"gre", "ipip", "ipvlan"}
      PROVE  norm.devices[d].mac = None
  <2>1. d \in Addressed(node) /\ d \in DOMAIN node.devices
    BY SameTypes DEF Addressed
  <2>2. norm.devices[d] = node.devices[d]
    BY <1>3, <2>1 DEF Same, SameDevice
  <2> QED BY <1>3, <2>1, <2>2 DEF ValidLinux
<1>4. BondMembers(norm) /\ VnisApart(norm) /\ VrfMembers(norm)
  BY SameBondMembers, SameVnis, SameVrfs DEF ValidLinux
<1>5. Parents(norm)
  <2> SUFFICES ASSUME NEW d \in DOMAIN norm.devices, norm.devices[d].type \in Stacked
               PROVE  norm.devices[d].link \notin DOMAIN norm.devices
    BY DEF Parents
  <2>1. d \in DOMAIN node.devices /\ norm.devices[d] = node.devices[d]
    BY DEF Same, SameDevice, Stacked
  <2> QED BY <2>1 DEF ValidLinux, Parents, Same
<1>6. IsInjective([d \in OfType(norm, "vlan") |-> <<norm.devices[d].link, norm.devices[d].id>>])
  BY SameVlans DEF ValidLinux
<1>7. RouteTablesAgree(norm)
  BY <1>1, SameMembers DEF ValidLinux, RouteTablesAgree
<1> QED BY <1>1, <1>2, <1>3, <1>4, <1>5, <1>6, <1>7 DEF ValidLinux

(* and a bridge node,                                                       *)
LEMMA SameBridgeNode ==
  ASSUME NEW node, NEW norm, Same(node, norm), ValidBridgeNode(node)
  PROVE  ValidBridgeNode(norm)
<1>1. norm.bridge = node.bridge /\ norm.routing = node.routing
  BY SameFields
<1>2. \A d \in DOMAIN norm.devices :
        norm.devices[d].type \in {"vxlan", "geneve"} /\ norm.devices[d].addrs = {}
  BY DEF Same, SameDevice, ValidBridgeNode
<1> QED BY <1>1, <1>2, SameVnis DEF ValidBridgeNode, Same

(* and so either kind of node.                                              *)
LEMMA NormalizedNodeIsValid ==
  ASSUME NEW node, IsNode(node), ValidNode(node)
  PROVE  ValidNode(NormalizedNode(node))
<1> DEFINE norm == NormalizedNode(node)
<1>1. Same(node, norm)
  BY NormalizedIsSame
<1>2. \A d \in DOMAIN norm.devices : ValidDevice(norm.devices[d])
  <2> SUFFICES ASSUME NEW d \in DOMAIN node.devices
               PROVE  ValidDevice(NormalizedDevice(node.devices[d]))
    BY NormalizedNodes
  <2>1. node.devices[d].type = "bond" =>
          /\ BondFields \subseteq DOMAIN node.devices[d]
          /\ node.devices[d].interfaces \in Seq(Range(node.devices[d].interfaces))
    BY BondsHaveFields DEF OfType
  <2>2. ValidDevice(node.devices[d])
    BY DEF ValidNode
  <2> QED BY <2>1, <2>2, NormalizedDeviceIsValid
<1> HIDE DEF norm
<1>3. /\ norm.interfaces = node.interfaces /\ norm.routes = node.routes
      /\ norm.neighbors = node.neighbors /\ norm.rules = node.rules
      /\ norm.routing = node.routing /\ norm.kind = node.kind
      /\ DOMAIN norm.devices = DOMAIN node.devices
  BY <1>1, SameFields DEF Same
<1>4. RoutesByTable(norm)
  BY <1>1, SameRoutes DEF ValidNode
<1>5. IF norm.kind = "linux" THEN ValidLinux(norm) ELSE ValidBridgeNode(norm)
  BY <1>1, <1>3, SameLinux, SameBridgeNode DEF ValidNode
<1>6. ValidNode(norm)
  BY <1>2, <1>3, <1>4, <1>5 DEF ValidNode
<1> QED BY <1>6 DEF norm

(* The whole topology.                                                      *)
LEMMA NormalizedTopology ==
  ASSUME NEW m, IsManifest(m)
  PROVE  /\ Normalized(m).links = m.links
         /\ DOMAIN Normalized(m).nodes = DOMAIN m.nodes
         /\ \A n \in DOMAIN m.nodes :
              IsNode(m.nodes[n]) /\ Normalized(m).nodes[n] = NormalizedNode(m.nodes[n])
         /\ \A n \in DOMAIN m.nodes : Same(m.nodes[n], Normalized(m).nodes[n])
<1>1. /\ Normalized(m).links = m.links
      /\ DOMAIN Normalized(m).nodes = DOMAIN m.nodes
      /\ \A n \in DOMAIN m.nodes : Normalized(m).nodes[n] = NormalizedNode(m.nodes[n])
  BY DEF Normalized, NormalizedNode, IsManifest
<1>2. \A n \in DOMAIN m.nodes : IsNode(m.nodes[n])
  BY DEF IsManifest
<1> QED BY <1>1, <1>2, NormalizedIsSame

(* Its links are the same, and so are the endpoints they need.              *)
LEMMA SameLinks ==
  ASSUME NEW m, IsManifest(m), ValidLinks(m)
  PROVE  ValidLinks(Normalized(m))
<1>1. \A n \in DOMAIN m.nodes : Normalized(m).nodes[n].interfaces = m.nodes[n].interfaces
  BY NormalizedTopology, SameFields
<1> QED BY <1>1, NormalizedTopology DEF ValidLinks

(* The interfaces that others may name are the same.                        *)
LEMMA SameAvailable ==
  ASSUME NEW m, IsManifest(m), NEW n \in DOMAIN m.nodes
  PROVE  Available(Normalized(m), n) = Available(m, n)
<1>1. Same(m.nodes[n], Normalized(m).nodes[n]) /\ Normalized(m).links = m.links
  BY NormalizedTopology
<1> QED BY <1>1, SameFields, SameTypes DEF Available

(* Routers are told apart as before.                                        *)
LEMMA SameRouters ==
  ASSUME NEW m, IsManifest(m), NEW n \in DOMAIN m.nodes, ValidRouters(m, n)
  PROVE  ValidRouters(Normalized(m), n)
<1> DEFINE norm == Normalized(m)
           Others(t, protocol) == {k \in DOMAIN t.nodes \ {n} :
              t.nodes[k].routing # None /\ t.nodes[k].routing[protocol] # None}
           Held(nd) == UNION {AddressesOf(nd, i) : i \in DOMAIN nd.interfaces \cup Addressed(nd)}
<1>1. \A k \in DOMAIN m.nodes : norm.nodes[k].routing = m.nodes[k].routing
  BY NormalizedTopology, SameFields
<1>2. /\ norm.nodes[n].sysctls = m.nodes[n].sysctls
      /\ norm.nodes[n].interfaces = m.nodes[n].interfaces
      /\ Addressed(norm.nodes[n]) = Addressed(m.nodes[n])
  BY NormalizedTopology, SameFields, SameTypes
<1>3. \A i : AddressesOf(norm.nodes[n], i) = AddressesOf(m.nodes[n], i)
  BY NormalizedTopology, SameAddresses
<1>4. \A protocol : Others(norm, protocol) = Others(m, protocol)
  BY <1>1, NormalizedTopology
<1>5. Held(norm.nodes[n]) = Held(m.nodes[n])
  BY <1>2, <1>3
<1>6. Available(norm, n) = Available(m, n)
  BY SameAvailable
<1> DEFINE Good(t, g) ==
       /\ <<"net.ipv4.ip_forward">> \in DOMAIN t.nodes[n].sysctls
       /\ t.nodes[n].sysctls[<<"net.ipv4.ip_forward">>] = 1
       /\ g.ospf # None =>
            /\ \A k \in Others(t, "ospf") : t.nodes[k].routing.ospf.router_id # g.ospf.router_id
            /\ g.ospf.passive_interfaces \subseteq Available(t, n)
       /\ g.bgp # None =>
            /\ \A k \in Others(t, "bgp") : t.nodes[k].routing.bgp.router_id # g.bgp.router_id
            /\ \A b \in g.bgp.neighbors : \E a \in Held(t.nodes[n]) : a.v = 4 /\ Net(a) = Net(b)
       /\ g.pim # None =>
            /\ "pimreg" \notin Available(t, n)
            /\ \A k \in Others(t, "pim") : t.nodes[k].routing.pim.rp_address = g.pim.rp_address
            /\ g.pim.interfaces \subseteq Available(t, n)
            /\ \A i \in g.pim.interfaces : \E a \in AddressesOf(t.nodes[n], i) : a.v = 4
<1>7. \A t : ValidRouters(t, n) <=> (t.nodes[n].routing # None => Good(t, t.nodes[n].routing))
  BY DEF ValidRouters
<1>8. \A protocol : Others(m, protocol) \subseteq DOMAIN m.nodes
  OBVIOUS
<1> HIDE DEF Others, Held
<1>9. ASSUME NEW g, Good(m, g) PROVE Good(norm, g)
  BY <1>1, <1>2, <1>3, <1>4, <1>5, <1>6, <1>8, <1>9
<1> HIDE DEF Good
<1> QED BY <1>1, <1>7, <1>9

(* What a device is stacked on, or made of, fits it as before.              *)
LEMMA SameStacked ==
  ASSUME NEW m, IsManifest(m), NEW n \in DOMAIN m.nodes, NEW d \in DOMAIN m.nodes[n].devices
  PROVE  /\ m.nodes[n].devices[d].type \in Stacked /\ StackedFits(m, n, d) =>
              StackedFits(Normalized(m), n, d)
         /\ BondFits(m, n, d) => BondFits(Normalized(m), n, d)
<1> DEFINE node == m.nodes[n]
           norm == Normalized(m).nodes[n]
<1>1. Same(node, norm) /\ Normalized(m).links = m.links
  BY NormalizedTopology
<1>2. node.devices[d].type \in Stacked => norm.devices[d] = node.devices[d]
  BY <1>1 DEF Same, SameDevice, Stacked
<1>3. norm.devices[d].interfaces = node.devices[d].interfaces
  BY <1>1, SameBonds DEF Same
<1>4. norm.interfaces = node.interfaces /\ \A i : AddressesOf(norm, i) = AddressesOf(node, i)
  BY <1>1, SameFields, SameAddresses
<1>5. BondFits(m, n, d) => BondFits(Normalized(m), n, d)
  BY <1>1, <1>3 DEF BondFits
<1>6. ASSUME node.devices[d].type \in Stacked, StackedFits(m, n, d)
      PROVE  StackedFits(Normalized(m), n, d)
  BY <1>1, <1>2, <1>4, <1>6 DEF StackedFits
<1> QED BY <1>5, <1>6

(* A bridge node has no bonds, so its ports are the same.                   *)
LEMMA SamePorts ==
  ASSUME NEW m, IsManifest(m), NEW n \in DOMAIN m.nodes, ValidNode(m.nodes[n]),
         m.nodes[n].kind = "bridge", ValidPorts(m, n)
  PROVE  ValidPorts(Normalized(m), n)
<1>1. Same(m.nodes[n], Normalized(m).nodes[n]) /\ Normalized(m).links = m.links
  BY NormalizedTopology
<1>2. \A d \in DOMAIN m.nodes[n].devices : m.nodes[n].devices[d].type # "bond"
  BY DEF ValidNode, ValidBridgeNode
<1>3. /\ DOMAIN Normalized(m).nodes[n].devices = DOMAIN m.nodes[n].devices
      /\ \A d \in DOMAIN m.nodes[n].devices :
           Normalized(m).nodes[n].devices[d] = m.nodes[n].devices[d]
  BY <1>1, <1>2 DEF Same, SameDevice
<1>4. Normalized(m).nodes[n].bridge = m.nodes[n].bridge
  BY <1>1, SameFields
<1> QED BY <1>1, <1>3, <1>4 DEF ValidPorts

(* So every reference still resolves.                                       *)
LEMMA SameReferences ==
  ASSUME NEW m, IsManifest(m), NEW n \in DOMAIN m.nodes,
         ValidNode(m.nodes[n]), ValidReferences(m, n)
  PROVE  ValidReferences(Normalized(m), n)
<1> DEFINE node == m.nodes[n]
           norm == Normalized(m).nodes[n]
<1>1. Same(node, norm) /\ Normalized(m).links = m.links
  BY NormalizedTopology
<1>2. Available(Normalized(m), n) = Available(m, n)
  BY SameAvailable
<1>3. /\ norm.kind = node.kind /\ norm.rules = node.rules /\ norm.routes = node.routes
      /\ norm.neighbors = node.neighbors /\ norm.interfaces = node.interfaces
      /\ DOMAIN norm.devices = DOMAIN node.devices
  BY ZenonT(40), <1>1, SameFields DEF Same
<1>4. OfType(norm, "vrf") = OfType(node, "vrf")
  BY <1>1, SameTypes
<1>5. \A d \in DOMAIN node.devices :
        norm.devices[d].type = node.devices[d].type
        /\ norm.devices[d].interfaces = node.devices[d].interfaces
  BY <1>1, SameBonds DEF Same
<1>6. \A d \in DOMAIN norm.devices :
       /\ norm.devices[d].type \in Stacked => StackedFits(Normalized(m), n, d)
       /\ norm.devices[d].type = "bond"    => BondFits(Normalized(m), n, d)
       /\ norm.devices[d].type = "vrf" =>
            Range(norm.devices[d].interfaces) \subseteq Available(Normalized(m), n)
  BY <1>2, <1>3, <1>5, SameStacked DEF ValidReferences
<1>7. norm.kind = "bridge" => ValidPorts(Normalized(m), n)
  BY <1>3, SamePorts DEF ValidReferences
<1>8. ValidRouters(Normalized(m), n)
  BY SameRouters DEF ValidReferences
<1> HIDE DEF norm
<1> DEFINE links == Normalized(m).links
<1>9. /\ DOMAIN norm.devices \cap Linked(links, n) = {}
      /\ \A r \in norm.rules :
           {r.iif, r.oif} \ {None}
             \subseteq Available(Normalized(m), n) \cup OfType(norm, "vrf") \cup {"lo"}
      /\ DOMAIN norm.interfaces \subseteq Available(Normalized(m), n)
      /\ \A route \in Range(norm.routes) : RouteDevices(route) \subseteq Available(Normalized(m), n)
      /\ \A b \in norm.neighbors : b.dev \in Available(Normalized(m), n)
  BY <1>1, <1>2, <1>3, <1>4 DEF ValidReferences
<1> QED BY <1>6, <1>7, <1>8, <1>9 DEF ValidReferences, norm

(* What is stored is accepted.                                              *)
LEMMA NormalizedIsAccepted ==
  ASSUME NEW m, IsManifest(m), Accepted(m)
  PROVE  Accepted(Normalized(m))
<1>1. \A n \in DOMAIN m.nodes : ValidNode(Normalized(m).nodes[n])
  BY NormalizedTopology, NormalizedNodeIsValid DEF Accepted
<1>2. ValidLinks(Normalized(m))
  BY SameLinks DEF Accepted
<1>3. \A n \in DOMAIN m.nodes : ValidReferences(Normalized(m), n)
  BY SameReferences DEF Accepted
<1> QED BY <1>1, <1>2, <1>3, NormalizedTopology DEF Accepted

(* It compiles,                                                             *)
LEMMA NormalizedCompiles ==
  ASSUME NEW m, IsManifest(m), Compiles(m)
  PROVE  Compiles(Normalized(m))
<1> SUFFICES ASSUME NEW n \in DOMAIN m.nodes, NEW r \in Range(Normalized(m).nodes[n].routes)
             PROVE  Infers(Normalized(m).nodes[n], r)
  BY NormalizedTopology DEF Compiles
<1>1. Same(m.nodes[n], Normalized(m).nodes[n])
  BY NormalizedTopology
<1>2. Normalized(m).nodes[n].routes = m.nodes[n].routes
  BY <1>1, SameFields
<1>3. Infers(m.nodes[n], r)
  BY <1>2 DEF Compiles
<1> QED BY <1>1, <1>3, SameRouteTables

(* declares the same MAC addresses,                                         *)
LEMMA SameMacs ==
  ASSUME NEW node, NEW norm, Same(node, norm)
  PROVE  CompileMacs(norm) = CompileMacs(node)
<1> DEFINE Mac(nd, i) == IF i \in DOMAIN nd.interfaces THEN nd.interfaces[i].mac
                         ELSE nd.devices[i].mac
           Named(nd) == {i \in DOMAIN nd.interfaces \cup Addressed(nd) : Mac(nd, i) # None}
<1>1. \A nd : CompileMacs(nd) = [i \in Named(nd) |-> Mac(nd, i)]
  BY DEF CompileMacs
<1>2. norm.interfaces = node.interfaces /\ Addressed(norm) = Addressed(node)
  BY SameFields, SameTypes
<1>3. \A i \in DOMAIN node.devices : norm.devices[i].mac = node.devices[i].mac
  BY SameBonds DEF Same
<1>4. \A i \in DOMAIN node.interfaces \cup Addressed(node) : Mac(norm, i) = Mac(node, i)
  BY <1>2, <1>3 DEF Addressed
<1>5. Named(norm) = Named(node)
  BY <1>2, <1>4
<1>6. [i \in Named(norm) |-> Mac(norm, i)] = [i \in Named(node) |-> Mac(node, i)]
  BY <1>4, <1>5
<1> QED BY <1>1, <1>6

(* plans each node as before,                                               *)
LEMMA NormalizedNodeMeansTheSame ==
  ASSUME NEW node, IsNode(node)
  PROVE  CompileNode(NormalizedNode(node)) = CompileNode(node)
<1> DEFINE norm == NormalizedNode(node)
<1>1. Same(node, norm)
  BY NormalizedIsSame
<1>2. [d \in DOMAIN norm.devices |-> CompileDevice(norm.devices[d])]
        = [d \in DOMAIN node.devices |-> CompileDevice(node.devices[d])]
  <2>1. \A d \in DOMAIN node.devices : node.devices[d].type = "bond" =>
          BondFields \subseteq DOMAIN node.devices[d]
    BY BondsHaveFields DEF OfType
  <2>2. \A d \in DOMAIN node.devices :
          CompileDevice(NormalizedDevice(node.devices[d])) = CompileDevice(node.devices[d])
    BY <2>1, NormalizedDevices
  <2>3. /\ DOMAIN norm.devices = DOMAIN node.devices
        /\ \A d \in DOMAIN node.devices : norm.devices[d] = NormalizedDevice(node.devices[d])
    BY NormalizedNodes
  <2> QED BY <2>2, <2>3
<1> HIDE DEF norm
<1>3. /\ norm.kind = node.kind /\ norm.interfaces = node.interfaces /\ norm.routes = node.routes
      /\ norm.neighbors = node.neighbors /\ norm.rules = node.rules
      /\ norm.sysctls = node.sysctls /\ norm.routing = node.routing /\ norm.bridge = node.bridge
  BY <1>1, SameFields
<1>4. [k \in DOMAIN norm.routes |-> CompileRoute(norm, norm.routes[k])]
        = [k \in DOMAIN node.routes |-> CompileRoute(node, node.routes[k])]
  BY <1>1, <1>3, SameRouteTables
<1>5. CompileMacs(norm) = CompileMacs(node)
  BY <1>1, SameMacs
<1>6. CompileSysctls(norm) = CompileSysctls(node)
  BY <1>3 DEF CompileSysctls
<1>7. CompileNode(norm) = CompileNode(node)
  BY <1>2, <1>3, <1>4, <1>5, <1>6 DEF CompileNode
<1> QED BY <1>7 DEF norm

(* and all of them.                                                         *)
LEMMA NormalizedMeansTheSame ==
  ASSUME NEW m, IsManifest(m)
  PROVE  Plan(Normalized(m)) = Plan(m)
<1>1. \A n \in DOMAIN m.nodes : CompileNode(Normalized(m).nodes[n]) = CompileNode(m.nodes[n])
  BY NormalizedTopology, NormalizedNodeMeansTheSame
<1> QED BY <1>1, NormalizedTopology DEF Plan

(* Normalizing once more changes nothing.                                   *)
LEMMA NormalizedNodeOnce ==
  ASSUME NEW node, IsNode(node)
  PROVE  NormalizedNode(NormalizedNode(node)) = NormalizedNode(node)
<1> DEFINE devices == [d \in DOMAIN node.devices |-> NormalizedDevice(node.devices[d])]
           norm == [node EXCEPT !.devices = devices]
<1>1. NormalizedNode(node) = norm
  BY DEF NormalizedNode
<1>2. \A d \in DOMAIN node.devices : NormalizedDevice(devices[d]) = devices[d]
  BY NormalizedDevices, BondsHaveFields DEF OfType
<1>3. [d \in DOMAIN devices |-> NormalizedDevice(devices[d])] = devices
  BY <1>2
<1> HIDE DEF devices
<1>4. norm.devices = devices
  BY DEF IsNode, NodeFields
<1>5. NormalizedNode(norm) = [norm EXCEPT !.devices = devices]
  BY <1>3, <1>4 DEF NormalizedNode
<1>6. [norm EXCEPT !.devices = devices] = norm
  OBVIOUS
<1> QED BY <1>1, <1>5, <1>6

(* And so for the manifest.                                                 *)
LEMMA NormalizedOnce ==
  ASSUME NEW m, IsManifest(m)
  PROVE  Normalized(Normalized(m)) = Normalized(m)
<1> DEFINE nodes == [n \in DOMAIN m.nodes |-> NormalizedNode(m.nodes[n])]
           norm == [m EXCEPT !.nodes = nodes]
<1>1. \A t : Normalized(t) =
                [t EXCEPT !.nodes = [n \in DOMAIN t.nodes |-> NormalizedNode(t.nodes[n])]]
  BY DEF Normalized, NormalizedNode
<1>2. Normalized(m) = norm
  BY <1>1
<1>3. \A n \in DOMAIN m.nodes : NormalizedNode(nodes[n]) = nodes[n]
  BY NormalizedTopology, NormalizedNodeOnce
<1>4. [n \in DOMAIN nodes |-> NormalizedNode(nodes[n])] = nodes
  BY <1>3
<1> HIDE DEF nodes
<1>5. norm.nodes = nodes
  BY DEF IsManifest
<1>6. Normalized(norm) = [norm EXCEPT !.nodes = nodes]
  BY <1>1, <1>4, <1>5
<1>7. [norm EXCEPT !.nodes = nodes] = norm
  OBVIOUS
<1> QED BY <1>2, <1>6, <1>7

(* Writer and reader know the same identities.                              *)
LEMMA IdentitiesAgree == WrittenFields = ExpectedFields
  BY DEF WrittenFields, ExpectedFields

(* The identities of links that match a plan tell the links apart.          *)
LEMMA MatchedIdsAreValid ==
  ASSUME NEW p, NEW inv, NEW snapshot, LinksMatch(p, inv), snapshot.status = "deployed",
         \A e \in LinkEnds(p) : snapshot.owned[e].link_id = LinkId(inv, e)
  PROVE  ValidIds(snapshot, p)
<1> DEFINE id(e) == snapshot.owned[e].link_id
<1>1. ASSUME NEW e \in LinkEnds(p)
      PROVE  \E k \in DOMAIN p.links :
               e \in EndsOf(p.links[k]) /\ e \in Group(inv, LinkId(inv, p.links[k].left))
  BY DEF LinkEnds, LinksMatch, Range
<1>2. \A e \in LinkEnds(p) : e \in Veths(inv) /\ id(e) = LinkId(inv, e) /\ id(e) # None
  BY <1>1 DEF Group, LinksMatch
<1>3. \A k \in DOMAIN p.links : p.links[k].left \in LinkEnds(p) /\ p.links[k].right \in LinkEnds(p)
  BY DEF LinkEnds, Range, EndsOf
<1>4. ASSUME NEW k \in DOMAIN p.links
      PROVE  /\ id(p.links[k].left) = id(p.links[k].right)
             /\ \A e \in LinkEnds(p) : id(e) = id(p.links[k].left) => e \in EndsOf(p.links[k])
  BY <1>2, <1>3 DEF LinksMatch, Group
<1>5. None \notin {id(e) : e \in LinkEnds(p)}
  BY <1>2
<1> HIDE DEF id
<1> QED BY <1>4, <1>5 DEF ValidIds, id

(* What the snapshot must be is what SnapshotFor writes.                    *)
LEMMA WrittenIsValid ==
  ASSUME NEW m, IsManifest(m), Accepted(m), Compiles(m), NEW status, NEW ids,
         ValidIds(SnapshotFor(m, status, ids), Plan(m))
  PROVE  /\ ValidSnapshot(SnapshotFor(m, status, ids))
         /\ Plan(SnapshotFor(m, status, ids).manifest) = Plan(m)
<1> DEFINE s == SnapshotFor(m, status, ids)
<1>1. /\ s.manifest = Normalized(m) /\ s.fingerprint = Normalized(m)
      /\ s.owned = Ownership(Plan(m), ids)
  BY DEF SnapshotFor, Fingerprint
<1> HIDE DEF s
<1>2. Accepted(s.manifest) /\ Compiles(s.manifest)
  BY <1>1, NormalizedIsAccepted, NormalizedCompiles
<1>3. Fingerprint(s.manifest) = s.fingerprint
  BY <1>1, NormalizedOnce DEF Fingerprint
<1>4. Plan(s.manifest) = Plan(m)
  BY <1>1, NormalizedMeansTheSame
<1>5. ValidInterfaces(s, Plan(m))
  <2>1. DOMAIN s.owned = Owned(Plan(m))
    BY <1>1 DEF Ownership
  <2>2. \A e \in Owned(Plan(m)) : s.owned[e].identity = Identify(Plan(m), e, ExpectedFields)
    BY <1>1, IdentitiesAgree DEF Ownership
  <2>3. ValidIds(s, Plan(m))
    BY DEF s
  <2> QED BY <2>1, <2>2, <2>3 DEF ValidInterfaces
<1> QED BY <1>2, <1>3, <1>4, <1>5 DEF ValidSnapshot, s

(* What is written before the build has no identities yet.                  *)
LEMMA UnknownIdsAreValid ==
  ASSUME NEW m
  PROVE  ValidIds(SnapshotFor(m, "deploying", UnknownIds(Plan(m))), Plan(m))
<1> DEFINE s == SnapshotFor(m, "deploying", UnknownIds(Plan(m)))
           p == Plan(m)
<1>1. s.status = "deploying" /\ \A e \in LinkEnds(p) : s.owned[e].link_id = None
  BY DEF SnapshotFor, Ownership, UnknownIds, Owned
<1> HIDE DEF s, p
<1>2. CASE LinkEnds(p) = {}
  <2>0. \A k \in DOMAIN p.links : p.links[k].left \in LinkEnds(p)
    BY DEF LinkEnds, Range, EndsOf
  <2>1. DOMAIN p.links = {}
    BY <1>2, <2>0
  <2>2. {s.owned[e].link_id : e \in LinkEnds(p)} = {}
    BY <1>2
  <2> QED BY <2>1, <2>2, <1>2 DEF ValidIds, s, p
<1>3. CASE LinkEnds(p) # {}
  <2>1. {s.owned[e].link_id : e \in LinkEnds(p)} = {None}
    BY <1>1, <1>3
  <2> QED BY <1>1, <2>1 DEF ValidIds, s, p
<1> QED BY <1>2, <1>3

(* The inductive invariant: only what is accepted and compiles is recorded. *)
Recordable ==
  /\ manifest \in Manifests
  /\ pc \notin {"validate", "refused"} => Accepted(manifest)
  /\ pc \notin {"validate", "refused", "compile", "crashed"} => Compiles(manifest)

(* Only Compile and Verify write the snapshot.                              *)
LEMMA RecordingStep ==
  ASSUME Recordable, RecordedIsValid, [Next]_vars
  PROVE  Recordable' /\ RecordedIsValid'
<1> DEFINE Before == {"validate", "refused", "compile", "crashed"}
<1>1. manifest' = manifest
  BY DEF Next, vars, Refuse, Accept, Crash, Compile, CreateNamespaces, CreateBridges, CreatePairs,
         Step, Proceed, StartNode, Configure, StartRouting, Verify, Drift, Lose, Replace, Strand,
         Finished
<1>2. UNCHANGED recorded => RecordedIsValid'
  BY <1>1 DEF RecordedIsValid, plan
<1>3. CASE Refuse \/ Accept \/ Crash
  BY <1>1, <1>2, <1>3 DEF Refuse, Accept, Crash, Recordable
<1>4. CASE Compile
  <2>1. Recordable'
    BY <1>1, <1>4 DEF Compile, Recordable
  <2>2. IsManifest(manifest) /\ Accepted(manifest) /\ Compiles(manifest)
    BY <1>4, ManifestsAssumption DEF Compile, Recordable
  <2>3. recorded' = SnapshotFor(manifest, "deploying", UnknownIds(Plan(manifest)))
    BY <1>4 DEF Compile, plan
  <2> QED BY <1>1, <2>1, <2>2, <2>3, UnknownIdsAreValid, WrittenIsValid DEF RecordedIsValid, plan
<1>5. CASE Verify
  <2>1. Recordable'
    BY <1>1, <1>5 DEF Verify, Recordable
  <2>2. CASE pc' = "deployed"
    <3> DEFINE s == SnapshotFor(manifest, "deployed", IdsOf(plan, inventory))
    <3>1. IsManifest(manifest) /\ Accepted(manifest) /\ Compiles(manifest)
      BY <1>5, ManifestsAssumption DEF Verify, Recordable
    <3>2. LinksMatch(plan, inventory) /\ recorded' = s
      BY <1>5, <2>2 DEF Verify, Matches
    <3>3. RecordedMatch(plan, inventory, s.owned) /\ s.status = "deployed"
      BY <3>2, VerifiedIsRecorded DEF SnapshotFor, plan
    <3> HIDE DEF s
    <3>4. ValidIds(s, plan)
      BY <3>2, <3>3, MatchedIdsAreValid DEF RecordedMatch
    <3>5. ValidSnapshot(s) /\ Plan(s.manifest) = plan
      BY <3>1, <3>4, WrittenIsValid DEF plan, s
    <3> QED BY <1>1, <2>1, <3>2, <3>5 DEF RecordedIsValid, plan
  <2>3. CASE pc' # "deployed"
    BY <1>2, <1>5, <2>1, <2>3 DEF Verify
  <2> QED BY <2>2, <2>3, <2>1
<1>6. CASE CreateNamespaces \/ CreateBridges \/ CreatePairs
  <2>1. pc \notin Before /\ pc' \notin Before /\ UNCHANGED recorded
    BY <1>6 DEF CreateNamespaces, CreateBridges, CreatePairs, Step
  <2> QED BY <1>1, <1>2, <2>1 DEF Recordable
<1>7. CASE Proceed
  <2>1. pc \notin Before /\ pc' \notin Before /\ UNCHANGED recorded
    BY <1>7 DEF Proceed, Steps
  <2> QED BY <1>1, <1>2, <2>1 DEF Recordable
<1>8. CASE StartNode \/ StartRouting \/ Drift \/ Lose \/ Replace \/ Strand
  <2>1. pc \notin Before /\ pc' \notin Before /\ UNCHANGED recorded
    BY <1>8 DEF StartNode, StartRouting, Drift, Lose, Replace, Strand, Blocks
  <2> QED BY <1>1, <1>2, <2>1 DEF Recordable
<1>9. CASE Configure
  <2>1. pc \in Range(Blocks) /\ (pc' = "failed" \/ pc' = After(pc)) /\ UNCHANGED recorded
    BY <1>9 DEF Configure
  <2>2. Range(Blocks) \cap Before = {}
    BY DEF Range, Blocks
  <2>3. pc' \notin Before
    BY <2>1 DEF After, Blocks
  <2> QED BY <1>1, <1>2, <2>1, <2>2, <2>3 DEF Recordable
<1>10. CASE UNCHANGED vars \/ Finished
  BY <1>1, <1>2, <1>10 DEF vars, Finished, Recordable
<1> QED
  BY <1>3, <1>4, <1>5, <1>6, <1>7, <1>8, <1>9, <1>10 DEF Next

(* The snapshot passes the check of every later command, and compiles to    *)
(* the plan deploy went by: whatever the manifest, whatever the kernel made *)
(* of it, in every state deploy can be left in.                             *)
THEOREM SnapshotsAreValid == Spec => []RecordedIsValid
<1>1. Init => Recordable /\ RecordedIsValid
  BY DEF Init, Recordable, RecordedIsValid, NoSnapshot
<1>2. Recordable /\ RecordedIsValid /\ [Next]_vars => Recordable' /\ RecordedIsValid'
  BY RecordingStep
<1> QED BY <1>1, <1>2, PTL DEF Spec

-----------------------------------------------------------------------------
(* What each request keeps of a namespace: what it is made of, that all     *)
(* that is in it comes from the plan, and what was there before.            *)

(* What a namespace is made of.                                             *)
NsFields   == {"links", "routes", "rules", "system", "neighbors", "sysctls", "err"}
LinkFields == {"kind", "up", "mtu", "mac", "addrs", "master", "data", "port", "vlans", "qdisc",
               "alias"}
IsFunction(f) == f = [x \in DOMAIN f |-> f[x]]
IsLink(l) == IsFunction(l) /\ LinkFields \subseteq DOMAIN l /\ PortSettings \subseteq DOMAIN l.port
Formed(ns) ==
  /\ IsFunction(ns) /\ NsFields \subseteq DOMAIN ns
  /\ IsFunction(ns.links) /\ \A i \in DOMAIN ns.links : IsLink(ns.links[i])

Tidy(vlans) ==
  /\ IsFiniteSet(vlans) /\ \A v \in vlans : v.vid \in Int
  /\ \A v, w \in vlans : v.vid = w.vid => v = w

(* Everything in it comes from the plan.                                    *)
LinkOrigin(p, n, i, l) ==
  /\ \A a \in l.addrs : a.v \in Families(p.nodes[n])
  /\ l.qdisc # None => \E k \in LinksAt(p.links, n, i) : l.qdisc = Shape(p.links[k])
  /\ l.alias # None => l.alias \in LinksAt(p.links, n, i)
  /\ Tidy(l.vlans)
Origin(p, n, ns) ==
  LET node == p.nodes[n] IN
  /\ \A i \in DOMAIN ns.links : LinkOrigin(p, n, i, ns.links[i])
  /\ ns.routes \subseteq Range(node.routes)
  /\ ns.rules \subseteq node.rules /\ ns.neighbors \subseteq node.neighbors

Fresh(ns) ==
  /\ "lo" \in DOMAIN ns.links
  /\ ns.links["lo"].kind = "loopback" /\ ns.links["lo"].data.link = None
  /\ ns.routes = {} /\ \A i \in DOMAIN ns.links \ {"lo"} : ns.links[i].addrs = {}

Sound(c, ns) ==
  /\ Formed(ns) /\ Origin(c.p, c.n, ns) /\ Adds(c.before, ns)
  /\ c.fresh = TRUE => Fresh(ns)

LEMMA RequestKeeps ==
  ASSUME NEW c, NEW ns, NEW errno, NEW result, Sound(c, ns),
         Ok(ns) /\ errno = None => Sound(c, result)
  PROVE  Sound(c, Request(ns, errno, result))
<1>1. Sound(c, Fail(ns, errno))
  <2> DEFINE failed == Fail(ns, errno)
  <2>1. /\ Formed(failed) /\ failed.links = ns.links /\ failed.routes = ns.routes
        /\ failed.rules = ns.rules /\ failed.neighbors = ns.neighbors
    BY DEF Sound, Formed, IsFunction, NsFields, Fail
  <2> HIDE DEF failed
  <2>2. Origin(c.p, c.n, failed)
    BY <2>1 DEF Sound, Origin
  <2>3. Adds(c.before, failed)
    BY <2>1 DEF Sound, Adds
  <2>4. c.fresh = TRUE => Fresh(failed)
    BY <2>1 DEF Sound, Fresh
  <2> QED
    BY <2>1, <2>2, <2>3, <2>4 DEF Sound, failed
<1> QED
  BY <1>1 DEF Request

(* A request that changes settings of links only.                           *)
LinkTweaks(l, m) ==
  /\ IsLink(m)
  /\ m.kind = l.kind /\ m.addrs = l.addrs /\ m.qdisc = l.qdisc /\ m.alias = l.alias
  /\ m.data.link = l.data.link
  /\ l.up => m.up
  /\ Tidy(l.vlans) => Tidy(m.vlans)
Tweaks(ns, s) ==
  /\ Formed(s)
  /\ s.routes = ns.routes /\ s.rules = ns.rules /\ s.neighbors = ns.neighbors
  /\ DOMAIN s.links = DOMAIN ns.links
  /\ \A i \in DOMAIN ns.links : LinkTweaks(ns.links[i], s.links[i])

LEMMA TweakKeeps ==
  ASSUME NEW c, NEW ns, NEW s, Sound(c, ns), Tweaks(ns, s)
  PROVE  Sound(c, s)
<1>1. Origin(c.p, c.n, s)
  BY DEF Sound, Tweaks, LinkTweaks, Origin, LinkOrigin
<1>2. Adds(c.before, s)
  BY DEF Sound, Tweaks, LinkTweaks, Adds
<1>3. c.fresh = TRUE => Fresh(s)
  BY DEF Sound, Tweaks, LinkTweaks, Fresh
<1> QED
  BY <1>1, <1>2, <1>3 DEF Sound, Tweaks

LEMMA SetUpKeeps ==
  ASSUME NEW c, NEW ns, NEW i, Sound(c, ns)
  PROVE  Sound(c, SetUp(ns, i))
<1> DEFINE l == ns.links[i]
           rising == IF l.up THEN {} ELSE {i} \cup VlansOn(ns, i)
           Up(j) == ns.links[j].up \/ j \in rising
           s == [ns EXCEPT !.links = [j \in DOMAIN @ |-> [@[j] EXCEPT !.up = Up(j)]]]
<1> HIDE DEF rising, Up
<1>1. Formed(s)
  BY DEF Sound, Formed, IsFunction, IsLink, LinkFields, NsFields
<1>2. ASSUME NEW j \in DOMAIN ns.links PROVE LinkTweaks(ns.links[j], s.links[j])
  <2> DEFINE o == ns.links[j]
             m == [o EXCEPT !.up = Up(j)]
  <2>0. IsLink(o)
    BY DEF Sound, Formed
  <2>1. s.links[j] = m
    BY DEF Sound, Formed, NsFields
  <2>5. IsLink(m)
    BY <2>0 DEF IsFunction, IsLink, LinkFields
  <2>2. m.up = Up(j)
    BY <2>0 DEF IsLink, LinkFields
  <2>3. o.up => m.up
    BY <2>2 DEF Up
  <2>4. /\ m.kind = o.kind /\ m.addrs = o.addrs /\ m.qdisc = o.qdisc /\ m.alias = o.alias
        /\ m.data = o.data /\ m.vlans = o.vlans
    BY DEF Sound, Formed, IsLink, LinkFields
  <2> QED
    BY <2>1, <2>3, <2>4, <2>5 DEF LinkTweaks
<1>3. Tweaks(ns, s)
  BY <1>1, <1>2 DEF Tweaks, Sound, Formed, NsFields
<1>4. Sound(c, s)
  BY <1>3, TweakKeeps
<1> HIDE DEF s
<1>5. SetUp(ns, i) = Request(ns, IF l.kind = "vlan" /\ ~ns.links[Lower(l)].up THEN "ENETDOWN" ELSE None, s)
  BY DEF SetUp, s, rising, Up
<1> QED
  BY <1>4, <1>5, RequestKeeps

LEMMA SetMtuKeeps ==
  ASSUME NEW c, NEW ns, NEW i, NEW mtu, Sound(c, ns)
  PROVE  Sound(c, SetMtu(ns, i, mtu))
<1> DEFINE s == [ns EXCEPT !.links[i].mtu = mtu]
<1>1. Tweaks(ns, s)
  BY DEF Sound, Formed, IsFunction, IsLink, LinkFields, NsFields, Tweaks, LinkTweaks
<1>2. Sound(c, s)
  BY <1>1, TweakKeeps
<1> QED
  BY <1>2, RequestKeeps DEF SetMtu

(* A link tweaked by itself.                                                *)
LEMMA OneTweakKeeps ==
  ASSUME NEW c, NEW ns, NEW i, NEW m, Sound(c, ns),
         i \in DOMAIN ns.links => LinkTweaks(ns.links[i], m)
  PROVE  Sound(c, [ns EXCEPT !.links[i] = m])
<1> DEFINE s == [ns EXCEPT !.links[i] = m]
<1>1. Formed(s)
  BY DEF Sound, Formed, IsFunction, NsFields, LinkTweaks
<1>2. \A j \in DOMAIN ns.links : LinkTweaks(ns.links[j], ns.links[j])
  BY DEF Sound, Formed, LinkTweaks
<1>3. \A j \in DOMAIN ns.links : LinkTweaks(ns.links[j], s.links[j])
  BY <1>2 DEF Sound, Formed, NsFields
<1>4. Tweaks(ns, s)
  BY <1>1, <1>3 DEF Tweaks, Sound, Formed, NsFields
<1> QED
  BY <1>4, TweakKeeps

LEMMA SetMacKeeps ==
  ASSUME NEW c, NEW ns, NEW i, NEW mac, Sound(c, ns)
  PROVE  Sound(c, SetMac(ns, i, mac))
<1> DEFINE same == {i} \cup {j \in DOMAIN ns.links : ns.links[i].kind = "bond" /\ ns.links[j].master = i}
           s == [ns EXCEPT !.links = [j \in DOMAIN @ |->
                   IF j \in same THEN [@[j] EXCEPT !.mac = mac] ELSE @[j]]]
<1> HIDE DEF same
<1>1. Tweaks(ns, s)
  BY DEF Sound, Formed, IsFunction, IsLink, LinkFields, NsFields, Tweaks, LinkTweaks
<1>2. Sound(c, s)
  BY <1>1, TweakKeeps
<1> QED
  BY <1>2, RequestKeeps DEF SetMac, same

LEMMA SetDataKeeps ==
  ASSUME NEW c, NEW ns, NEW i, NEW field, NEW value, field # "link", Sound(c, ns)
  PROVE  Sound(c, SetData(ns, i, field, value))
<1> DEFINE l    == ns.links[i]
           data == [l.data EXCEPT ![field] = value]
           m    == [l EXCEPT !.data = data]
           s    == [ns EXCEPT !.links[i] = m]
<1>1. ASSUME i \in DOMAIN ns.links PROVE LinkTweaks(l, m)
  <2>1. IsLink(l)
    BY <1>1 DEF Sound, Formed
  <2>2. IsFunction(data) /\ DOMAIN data = DOMAIN l.data /\ data.link = l.data.link
    BY DEF IsFunction
  <2> HIDE DEF l, data
  <2>3. IsLink(m)
    BY <2>1, <2>2 DEF IsFunction, IsLink, LinkFields
  <2>4. /\ m.kind = l.kind /\ m.addrs = l.addrs /\ m.qdisc = l.qdisc /\ m.alias = l.alias
        /\ m.data = data /\ m.vlans = l.vlans /\ m.up = l.up
    BY <2>1 DEF IsLink, LinkFields
  <2> QED
    BY <2>2, <2>3, <2>4 DEF LinkTweaks
<1>2. Sound(c, s)
  BY <1>1, OneTweakKeeps
<1>3. s = [ns EXCEPT !.links[i].data[field] = value]
  OBVIOUS
<1> HIDE DEF s
<1> QED
  BY <1>2, <1>3, RequestKeeps DEF SetData

LEMMA PortKeeps ==
  ASSUME NEW c, NEW ns, NEW i, NEW port, Sound(c, ns),
         i \in DOMAIN ns.links => PortSettings \subseteq DOMAIN port
  PROVE  Sound(c, [ns EXCEPT !.links[i].port = port])
<1> DEFINE s == [ns EXCEPT !.links[i].port = port]
<1>1. Tweaks(ns, s)
  BY DEF Sound, Formed, IsFunction, IsLink, LinkFields, NsFields, Tweaks, LinkTweaks
<1> QED
  BY <1>1, TweakKeeps

LEMMA SetPortKeeps ==
  ASSUME NEW c, NEW ns, NEW i, NEW settings, Sound(c, ns)
  PROVE  Sound(c, SetPort(ns, i, settings))
<1> DEFINE old == ns.links[i].port
           port == [t \in DOMAIN old |-> Default(settings[t], old[t])]
<1>1. i \in DOMAIN ns.links => PortSettings \subseteq DOMAIN port
  BY DEF Sound, Formed, IsLink
<1> HIDE DEF port
<1>2. Sound(c, [ns EXCEPT !.links[i].port = port])
  BY <1>1, PortKeeps
<1> QED
  BY <1>2, RequestKeeps DEF SetPort, port

(* The VLANs of a port stay apart.                                          *)
LEMMA VlansKeep ==
  ASSUME NEW c, NEW ns, NEW i, NEW vlans, Sound(c, ns), 
         i \in DOMAIN ns.links /\ Tidy(ns.links[i].vlans) => Tidy(vlans)
  PROVE  Sound(c, [ns EXCEPT !.links[i].vlans = vlans])
<1> DEFINE s == [ns EXCEPT !.links[i].vlans = vlans]
<1>1. Tweaks(ns, s)
  BY SMTT(30) DEF Sound, Formed, IsFunction, IsLink, LinkFields, NsFields, Tweaks, LinkTweaks
<1> QED
  BY <1>1, TweakKeeps

LEMMA ImageIsFinite ==
  ASSUME NEW f, IsFiniteSet(DOMAIN f)
  PROVE  IsFiniteSet({f[x] : x \in DOMAIN f})
<1> DEFINE S == DOMAIN f
           T == {f[x] : x \in DOMAIN f}
           g == [x \in S |-> f[x]]
<1>1. g \in Surjection(S, T)
  BY DEF Surjection
<1> QED
  BY <1>1, FS_Surjection

LEMMA SmallerIsTidy ==
  ASSUME NEW vlans, Tidy(vlans), NEW some \in SUBSET vlans
  PROVE  Tidy(some)
  BY FS_Subset DEF Tidy

LEMMA AddVlanIsTidy ==
  ASSUME NEW vlans, Tidy(vlans), NEW vlan, vlan.vid \in Int
  PROVE  Tidy({IF vlan.pvid THEN [w EXCEPT !.pvid = FALSE] ELSE w : w \in {x \in vlans : x.vid # vlan.vid}}
                \cup {vlan})
<1> DEFINE others == {x \in vlans : x.vid # vlan.vid}
           f      == [w \in others |-> IF vlan.pvid THEN [w EXCEPT !.pvid = FALSE] ELSE w]
           moved  == {f[w] : w \in DOMAIN f}
<1>1. IsFiniteSet(others) /\ others \subseteq vlans
  BY FS_Subset DEF Tidy
<1>2. \A w \in others : f[w].vid = w.vid /\ w.vid # vlan.vid
  OBVIOUS
<1>3. DOMAIN f = others /\ moved = {IF vlan.pvid THEN [w EXCEPT !.pvid = FALSE] ELSE w : w \in others}
  OBVIOUS
<1> HIDE DEF others, f
<1>4. IsFiniteSet(moved)
  BY <1>1, <1>3, ImageIsFinite
<1>5. IsFiniteSet(moved \cup {vlan})
  BY <1>4, FS_AddElement
<1>6. \A v \in moved : v.vid \in Int /\ v.vid # vlan.vid
  BY <1>1, <1>2, <1>3 DEF Tidy
<1>7. \A v, w \in moved : v.vid = w.vid => v = w
  BY <1>1, <1>2, <1>3 DEF Tidy
<1>8. Tidy(moved \cup {vlan})
  BY <1>5, <1>6, <1>7 DEF Tidy
<1> QED
  BY <1>3, <1>8 DEF others

LEMMA AddVlanKeeps ==
  ASSUME NEW c, NEW ns, NEW i, NEW vlan, vlan.vid \in Int, Sound(c, ns)
  PROVE  Sound(c, AddVlan(ns, i, vlan))
<1> DEFINE vlans == {IF vlan.pvid THEN [w EXCEPT !.pvid = FALSE] ELSE w :
                       w \in {x \in ns.links[i].vlans : x.vid # vlan.vid}} \cup {vlan}
<1>1. Tidy(ns.links[i].vlans) => Tidy(vlans)
  BY AddVlanIsTidy
<1>2. Sound(c, [ns EXCEPT !.links[i].vlans = vlans])
  <2> HIDE DEF vlans
  <2> QED
    BY <1>1, VlansKeep
<1> HIDE DEF vlans
<1> QED
  BY <1>2, RequestKeeps DEF AddVlan, vlans

LEMMA DeleteVlanKeeps ==
  ASSUME NEW c, NEW ns, NEW i, NEW vid, Sound(c, ns)
  PROVE  Sound(c, DeleteVlan(ns, i, vid))
<1> DEFINE vlans == {w \in ns.links[i].vlans : w.vid # vid}
<1>1. Tidy(ns.links[i].vlans) => Tidy(vlans)
  BY SmallerIsTidy
<1>2. Sound(c, [ns EXCEPT !.links[i].vlans = vlans])
  <2> HIDE DEF vlans
  <2> QED
    BY <1>1, VlansKeep
<1> QED
  BY <1>2, RequestKeeps DEF DeleteVlan

(* A link is given to a master, and both are changed.                       *)
LEMMA MemberIsTweaked ==
  ASSUME NEW l, IsLink(l), NEW m, NEW mac, NEW bond, NEW bridge
  PROVE  LinkTweaks(l, [l EXCEPT !.master = m,
                          !.mac    = mac,
                          !.up     = IF bond THEN TRUE ELSE l.up,
                          !.port   = IF bridge THEN BasePort ELSE l.port,
                          !.vlans  = IF bridge THEN {Pvid1} ELSE l.vlans])
<1> DEFINE up    == IF bond THEN TRUE ELSE l.up
           port  == IF bridge THEN BasePort ELSE l.port
           vlans == IF bridge THEN {Pvid1} ELSE l.vlans
           n     == [l EXCEPT !.master = m, !.mac = mac, !.up = up, !.port = port, !.vlans = vlans]
<1>1. PortSettings \subseteq DOMAIN BasePort
  BY DEF BasePort, PortSettings
<1>2. Tidy({Pvid1})
  <2>1. Pvid1.vid \in Int
    BY DEF Pvid1
  <2>2. IsFiniteSet({Pvid1})
    BY FS_Singleton
  <2> QED
    BY <2>1, <2>2 DEF Tidy
<1>3. PortSettings \subseteq DOMAIN port
  BY <1>1 DEF IsLink
<1>4. (l.up => up) /\ (Tidy(l.vlans) => Tidy(vlans))
  BY <1>2
<1> HIDE DEF up, port, vlans
<1>5. IsLink(n)
  BY <1>3 DEF IsLink, IsFunction, LinkFields
<1>6. /\ n.up = up /\ n.vlans = vlans /\ n.kind = l.kind /\ n.addrs = l.addrs /\ n.qdisc = l.qdisc
      /\ n.alias = l.alias /\ n.data = l.data
  BY DEF IsLink, LinkFields
<1>7. LinkTweaks(l, n)
  BY <1>4, <1>5, <1>6 DEF LinkTweaks
<1> QED
  BY <1>7 DEF up, port, vlans

LEMMA LeaderIsTweaked ==
  ASSUME NEW l, IsLink(l), NEW mtu, NEW mac
  PROVE  LinkTweaks(l, [l EXCEPT !.mtu = mtu, !.mac = mac])
<1> DEFINE n == [l EXCEPT !.mtu = mtu, !.mac = mac]
<1>1. IsLink(n)
  BY DEF IsLink, IsFunction, LinkFields
<1> QED
  BY <1>1 DEF LinkTweaks, IsLink, LinkFields

LEMMA SetMasterKeeps ==
  ASSUME NEW c, NEW ns, NEW i, NEW m, Sound(c, ns)
  PROVE  Sound(c, SetMaster(ns, i, m))
<1> DEFINE l       == ns.links[i]
           top     == ns.links[m]
           members == {j \in DOMAIN ns.links : ns.links[j].master = m}
           bond    == top.kind = "bond"
           bridge  == top.kind = "bridge"
           leading == [top EXCEPT
             !.mtu = IF bridge THEN Min({l.mtu} \cup {ns.links[j].mtu : j \in members}) ELSE top.mtu,
             !.mac = IF bond /\ members = {} THEN l.mac ELSE top.mac]
           member  == [l EXCEPT
             !.master = m,
             !.mac    = IF bond /\ members # {} THEN top.mac ELSE l.mac,
             !.up     = IF bond THEN TRUE ELSE l.up,
             !.port   = IF bridge THEN BasePort ELSE l.port,
             !.vlans  = IF bridge THEN {Pvid1} ELSE l.vlans]
           errno == IF bond /\ l.up THEN "EPERM"
                    ELSE IF (bond \/ bridge) /\ Received(ns, i) # {} THEN "EBUSY" ELSE None
           s == [ns EXCEPT !.links[m] = leading, !.links[i] = member]
<1>1. SetMaster(ns, i, m) = Request(ns, errno, s)
  BY DEF SetMaster
<1>2. m \in DOMAIN ns.links => LinkTweaks(ns.links[m], leading)
  BY LeaderIsTweaked DEF Sound, Formed
<1>3. i \in DOMAIN ns.links => LinkTweaks(ns.links[i], member)
  BY MemberIsTweaked DEF Sound, Formed
<1> HIDE DEF leading, member
<1> DEFINE r == [ns EXCEPT !.links[m] = leading]
<1>4. Sound(c, r)
  BY <1>2, OneTweakKeeps
<1>5. ASSUME i \in DOMAIN r.links PROVE LinkTweaks(r.links[i], member)
  <2>1. i \in DOMAIN ns.links /\ r.links[i] = IF i = m THEN leading ELSE l
    BY <1>5 DEF Sound, Formed, NsFields
  <2>2. i = m => LinkTweaks(leading, member)
    BY <1>2, <1>3, <2>1 DEF LinkTweaks, member, leading, Sound, Formed, IsLink, LinkFields
  <2> QED
    BY <1>3, <2>1, <2>2
<1>6. Sound(c, [r EXCEPT !.links[i] = member])
  <2> HIDE DEF r
  <2> QED
    BY <1>4, <1>5, OneTweakKeeps
<1>7. s = [r EXCEPT !.links[i] = member]
  OBVIOUS
<1>8. Sound(c, s)
  BY <1>6, <1>7
<1> HIDE DEF s
<1> QED
  BY <1>1, <1>8, RequestKeeps

(* Nothing but an interface that is down has ... *)
LEMMA SetDownKeeps ==
  ASSUME NEW c, NEW ns, NEW i, i # "lo", i # None, c.fresh = TRUE, Sound(c, ns)
  PROVE  Sound(c, SetDown(ns, i))
<1> DEFINE down == {i} \cup VlansOn(ns, i)
           Link(j) == IF j \notin down THEN ns.links[j]
                      ELSE [ns.links[j] EXCEPT !.up = FALSE, !.addrs = {a \in @ : a.v = 4}]
           routes == {r \in ns.routes : RouteDevices(r) \cap down = {}}
           s == [ns EXCEPT !.links = [j \in DOMAIN @ |-> Link(j)], !.routes = routes]
<1>1. "lo" \notin down
  BY DEF Sound, Fresh, VlansOn, On, Lower
<1>2. routes = {} /\ ns.routes = {}
  BY DEF Sound, Fresh
<1> HIDE DEF down, routes
<1>3. \A j \in DOMAIN ns.links :
        /\ IsLink(Link(j)) /\ Link(j).kind = ns.links[j].kind /\ Link(j).qdisc = ns.links[j].qdisc
        /\ Link(j).alias = ns.links[j].alias /\ Link(j).data = ns.links[j].data
        /\ Link(j).vlans = ns.links[j].vlans
        /\ Link(j).addrs \subseteq ns.links[j].addrs
        /\ j \notin down => Link(j) = ns.links[j]
  BY ZenonT(40) DEF Sound, Formed, IsLink, IsFunction, LinkFields
<1> HIDE DEF Link
<1>4. /\ Formed(s) /\ DOMAIN s.links = DOMAIN ns.links /\ s.routes = routes /\ s.rules = ns.rules
      /\ s.neighbors = ns.neighbors /\ \A j \in DOMAIN ns.links : s.links[j] = Link(j)
  <2> DEFINE links == [j \in DOMAIN ns.links |-> Link(j)]
  <2>1. /\ IsFunction(s) /\ NsFields \subseteq DOMAIN s /\ s.links = links /\ s.routes = routes
        /\ s.rules = ns.rules /\ s.neighbors = ns.neighbors
    BY ZenonT(40) DEF Sound, Formed, IsFunction, NsFields
  <2>2. /\ IsFunction(links) /\ DOMAIN links = DOMAIN ns.links
        /\ \A j \in DOMAIN ns.links : links[j] = Link(j)
    BY DEF IsFunction
  <2> HIDE DEF s, links
  <2> QED
    BY <1>3, <2>1, <2>2 DEF Formed
<1> HIDE DEF s
<1>5. Origin(c.p, c.n, s)
  BY <1>2, <1>3, <1>4 DEF Sound, Origin, LinkOrigin
<1>6. ASSUME NEW j \in DOMAIN c.before.links
      PROVE  /\ j \in DOMAIN s.links /\ c.before.links[j].addrs \subseteq s.links[j].addrs
             /\ c.before.links[j].up /\ c.before.links[j].addrs # {} => s.links[j].up
  <2>1. /\ j \in DOMAIN ns.links /\ c.before.links[j].addrs \subseteq ns.links[j].addrs
        /\ c.before.links[j].up /\ c.before.links[j].addrs # {} => ns.links[j].up
    BY DEF Sound, Adds
  <2>2. CASE j \in down
    <3>1. ns.links[j].addrs = {}
      BY <1>1, <2>1, <2>2 DEF Sound, Fresh
    <3> QED
      BY <1>4, <2>1, <3>1
  <2>3. CASE j \notin down
    BY <1>3, <1>4, <2>1, <2>3
  <2> QED
    BY <2>2, <2>3
<1>7. Adds(c.before, s)
  BY <1>2, <1>4, <1>6 DEF Sound, Adds
<1>8. Fresh(s)
  BY <1>1, <1>2, <1>3, <1>4 DEF Sound, Fresh
<1>9. Sound(c, s)
  BY <1>4, <1>5, <1>7, <1>8 DEF Sound
<1>10. SetDown(ns, i) = Request(ns, None, s)
  BY DEF SetDown, s, Link, down, routes
<1> QED
  BY <1>9, <1>10, RequestKeeps

(* A link more.                                                             *)
LEMMA SharedModeTweaks ==
  ASSUME NEW links, NEW kind, NEW data, \A j \in DOMAIN links : IsLink(links[j])
  PROVE  /\ IsFunction(SharedMode(links, kind, data))
         /\ DOMAIN SharedMode(links, kind, data) = DOMAIN links
         /\ \A j \in DOMAIN links : LinkTweaks(links[j], SharedMode(links, kind, data)[j])
  BY DEF SharedMode, LinkTweaks, IsLink, IsFunction, LinkFields

LEMMA NewLinkFacts ==
  ASSUME NEW kind, NEW mtu, NEW mac, NEW data
  PROVE  LET l == NewLink(kind, mtu, mac, data) IN
         /\ IsLink(l) /\ l.addrs = {} /\ l.qdisc = None /\ l.alias = None /\ l.vlans = {}
         /\ l.kind = kind /\ l.data = data /\ Tidy(l.vlans)
<1>1. Tidy({})
  BY FS_EmptySet DEF Tidy
<1> QED
  BY <1>1 DEF NewLink, IsLink, IsFunction, LinkFields, NoPort

LEMMA AddLinkKeeps ==
  ASSUME NEW c, NEW ns, NEW name, NEW kind, NEW data, Sound(c, ns)
  PROVE  Sound(c, AddLink(ns, name, kind, data))
<1> DEFINE inherits == kind \in {"vlan", "macvlan", "ipvlan"} /\ data.link # None
           shares   == kind \in {"vlan", "ipvlan"} /\ data.link # None
           mtu == IF inherits THEN ns.links[data.link].mtu ELSE 1500
           mac == IF shares THEN ns.links[data.link].mac ELSE name
           new == NewLink(kind, mtu, mac, data)
           rest == SharedMode(ns.links, kind, data)
           links == With(rest, name, new)
           system == IF kind = "vrf" THEN ns.system \cup L3mdevRules ELSE ns.system
           s == [ns EXCEPT !.links = links, !.system = system]
<1>1. AddLink(ns, name, kind, data) = Request(ns, AddError(ns, name, kind, data), s)
  BY DEF AddLink
<1>2. ASSUME name \notin DOMAIN ns.links PROVE Sound(c, s)
  <2>1. /\ IsLink(new) /\ new.addrs = {} /\ new.qdisc = None /\ new.alias = None /\ Tidy(new.vlans)
    BY NewLinkFacts
  <2>2. /\ IsFunction(rest) /\ DOMAIN rest = DOMAIN ns.links
        /\ \A j \in DOMAIN ns.links : LinkTweaks(ns.links[j], rest[j])
    BY SharedModeTweaks DEF Sound, Formed
  <2> HIDE DEF new, rest
  <2>3. /\ IsFunction(links) /\ DOMAIN links = DOMAIN ns.links \cup {name} /\ links[name] = new
        /\ \A j \in DOMAIN ns.links : links[j] = rest[j]
    <3>1. links = [x \in {name} \cup DOMAIN ns.links |-> IF x = name THEN new ELSE rest[x]]
      BY <1>2, <2>2 DEF With
    <3> QED
      BY <1>2, <3>1 DEF IsFunction
  <2> HIDE DEF links, system
  <2>4. /\ Formed(s) /\ s.links = links /\ s.routes = ns.routes /\ s.rules = ns.rules
        /\ s.neighbors = ns.neighbors
    BY <2>1, <2>2, <2>3 DEF Sound, Formed, IsFunction, NsFields, LinkTweaks
  <2> HIDE DEF s
  <2>5. Origin(c.p, c.n, s)
    BY <2>1, <2>2, <2>3, <2>4 DEF Sound, Origin, LinkOrigin, LinkTweaks
  <2>6. Adds(c.before, s)
    BY <2>2, <2>3, <2>4 DEF Sound, Adds, LinkTweaks
  <2>7. c.fresh = TRUE => Fresh(s)
    BY <1>2, <2>1, <2>2, <2>3, <2>4 DEF Sound, Fresh, LinkTweaks
  <2> QED
    BY <2>4, <2>5, <2>6, <2>7 DEF Sound
<1>3. AddError(ns, name, kind, data) = None => name \notin DOMAIN ns.links
  BY ErrnosAssumption DEF AddError, Known, Errnos
<1> HIDE DEF s
<1> QED
  BY <1>1, <1>2, <1>3, RequestKeeps

LEMMA RequireKeeps ==
  ASSUME NEW c, NEW ns, NEW i, Sound(c, ns)
  PROVE  Sound(c, Require(ns, i))
  BY RequestKeeps DEF Require

LEMMA AddAddressKeeps ==
  ASSUME NEW c, NEW ns, NEW i, NEW a, Sound(c, ns), c.fresh # TRUE,
         a.v \in Families(c.p.nodes[c.n])
  PROVE  Sound(c, AddAddress(ns, i, a))
<1> DEFINE s == [ns EXCEPT !.links[i].addrs = @ \cup {a}]
           l == ns.links[i]
           m == [l EXCEPT !.addrs = l.addrs \cup {a}]
<1>1. ASSUME i \in DOMAIN ns.links
      PROVE  IsLink(m) /\ m.addrs = l.addrs \cup {a}
             /\ m.qdisc = l.qdisc /\ m.alias = l.alias /\ m.vlans = l.vlans /\ m.up = l.up
  BY <1>1 DEF Sound, Formed, IsLink, IsFunction, LinkFields
<1>2. s = [ns EXCEPT !.links[i] = m]
  OBVIOUS
<1> HIDE DEF s, m
<1>3. /\ Formed(s) /\ DOMAIN s.links = DOMAIN ns.links /\ s.routes = ns.routes
      /\ s.rules = ns.rules /\ s.neighbors = ns.neighbors
      /\ \A j \in DOMAIN ns.links : s.links[j] = IF j = i THEN m ELSE ns.links[j]
  BY <1>1, <1>2 DEF Sound, Formed, IsFunction, NsFields
<1>4. Origin(c.p, c.n, s)
  BY <1>1, <1>3 DEF Sound, Origin, LinkOrigin
<1>5. Adds(c.before, s)
  BY <1>1, <1>3 DEF Sound, Adds
<1>6. Sound(c, s)
  BY <1>3, <1>4, <1>5 DEF Sound
<1> QED
  BY <1>6, RequestKeeps DEF AddAddress, s

LEMMA AddRouteKeeps ==
  ASSUME NEW c, NEW ns, NEW r, Sound(c, ns), c.fresh # TRUE, r \in Range(c.p.nodes[c.n].routes)
  PROVE  Sound(c, AddRoute(ns, r))
<1> DEFINE s == [ns EXCEPT !.routes = @ \cup {r}]
<1>1. /\ Formed(s) /\ s.links = ns.links /\ s.routes = ns.routes \cup {r}
      /\ s.rules = ns.rules /\ s.neighbors = ns.neighbors
  BY DEF Sound, Formed, IsFunction, NsFields
<1> HIDE DEF s
<1>2. Origin(c.p, c.n, s) /\ Adds(c.before, s)
  BY <1>1 DEF Sound, Origin, Adds
<1>3. Sound(c, s)
  BY <1>1, <1>2 DEF Sound
<1> QED
  BY <1>3, RequestKeeps DEF AddRoute, s

LEMMA AddNeighborKeeps ==
  ASSUME NEW c, NEW ns, NEW b, Sound(c, ns), b \in c.p.nodes[c.n].neighbors
  PROVE  Sound(c, AddNeighbor(ns, b))
<1> DEFINE s == [ns EXCEPT !.neighbors = @ \cup {b}]
<1>1. /\ Formed(s) /\ s.links = ns.links /\ s.routes = ns.routes
      /\ s.rules = ns.rules /\ s.neighbors = ns.neighbors \cup {b}
  BY DEF Sound, Formed, IsFunction, NsFields
<1> HIDE DEF s
<1>2. Origin(c.p, c.n, s) /\ Adds(c.before, s)
  BY <1>1 DEF Sound, Origin, Adds
<1>3. Sound(c, s)
  BY <1>1, <1>2 DEF Sound, Fresh
<1> QED
  BY <1>3, RequestKeeps DEF AddNeighbor, s

LEMMA AddRuleKeeps ==
  ASSUME NEW c, NEW ns, NEW r, Sound(c, ns), r \in c.p.nodes[c.n].rules
  PROVE  Sound(c, AddRule(ns, r))
<1> DEFINE s == [ns EXCEPT !.rules = @ \cup {r}]
<1>1. /\ Formed(s) /\ s.links = ns.links /\ s.routes = ns.routes
      /\ s.rules = ns.rules \cup {r} /\ s.neighbors = ns.neighbors
  BY DEF Sound, Formed, IsFunction, NsFields
<1> HIDE DEF s
<1>2. Origin(c.p, c.n, s) /\ Adds(c.before, s)
  BY <1>1 DEF Sound, Origin, Adds
<1>3. Sound(c, s)
  BY <1>1, <1>2 DEF Sound, Fresh
<1> QED
  BY <1>3, RequestKeeps DEF AddRule, s

LEMMA WriteSysctlKeeps ==
  ASSUME NEW c, NEW ns, NEW k, NEW x, Sound(c, ns)
  PROVE  Sound(c, WriteSysctl(ns, k, x))
<1> DEFINE s == [ns EXCEPT !.sysctls = With(@, k, x)]
<1>1. /\ Formed(s) /\ s.links = ns.links /\ s.routes = ns.routes
      /\ s.rules = ns.rules /\ s.neighbors = ns.neighbors
  BY DEF Sound, Formed, IsFunction, NsFields
<1> HIDE DEF s
<1>2. Sound(c, s)
  BY <1>1 DEF Sound, Origin, Adds, Fresh
<1> QED
  BY <1>2, RequestKeeps DEF WriteSysctl, s

LEMMA VethEndKeeps ==
  ASSUME NEW c, NEW ns, NEW k, NEW i, Sound(c, ns), k \in LinksAt(c.p.links, c.n, i)
  PROVE  Sound(c, VethEnd(c.p.links, k, i, ns))
<1> DEFINE start == Request(ns, IF TooLong(c.p.links[k].qdisc) THEN "EOVERFLOW" ELSE None, ns)
           added == AddLink(start, i, "veth", NoData)
           l     == added.links[i]
           m     == [l EXCEPT !.mtu = c.p.links[k].mtu, !.up = TRUE, !.alias = k,
                              !.qdisc = Shape(c.p.links[k])]
           s     == [added EXCEPT !.links[i] = m]
<1>1. Sound(c, start)
  BY RequestKeeps
<1> HIDE DEF start
<1>2. Sound(c, added)
  BY <1>1, AddLinkKeeps
<1>3. VethEnd(c.p.links, k, i, ns) = IF ~Ok(added) THEN added ELSE s
  BY DEF VethEnd, start
<1> HIDE DEF added
<1>4. ASSUME i \in DOMAIN added.links
      PROVE  /\ IsLink(m) /\ m.kind = l.kind /\ m.addrs = l.addrs /\ m.data = l.data
             /\ m.vlans = l.vlans /\ m.up = TRUE /\ m.alias = k /\ m.qdisc = Shape(c.p.links[k])
  BY <1>2, <1>4 DEF Sound, Formed, IsLink, IsFunction, LinkFields
<1> HIDE DEF m
<1>5. /\ Formed(s) /\ DOMAIN s.links = DOMAIN added.links /\ s.routes = added.routes
      /\ s.rules = added.rules /\ s.neighbors = added.neighbors
      /\ \A j \in DOMAIN added.links : s.links[j] = IF j = i THEN m ELSE added.links[j]
  BY <1>2, <1>4 DEF Sound, Formed, IsFunction, NsFields
<1> HIDE DEF s
<1>6. Origin(c.p, c.n, s)
  <2>1. ASSUME NEW j \in DOMAIN added.links PROVE LinkOrigin(c.p, c.n, j, s.links[j])
    <3>1. LinkOrigin(c.p, c.n, j, added.links[j])
      BY <1>2 DEF Sound, Origin
    <3>2. CASE j = i
      BY <1>4, <1>5, <3>1, <3>2 DEF LinkOrigin
    <3>3. CASE j # i
      BY <1>5, <3>1, <3>3
    <3> QED
      BY <3>2, <3>3
  <2> QED
    BY <1>2, <1>5, <2>1 DEF Sound, Origin
<1>7. Adds(c.before, s)
  BY <1>2, <1>4, <1>5 DEF Sound, Adds
<1>8. c.fresh = TRUE => Fresh(s)
  BY <1>2, <1>4, <1>5 DEF Sound, Fresh
<1>9. Sound(c, s)
  BY <1>5, <1>6, <1>7, <1>8 DEF Sound
<1> QED
  BY <1>2, <1>3, <1>9

-----------------------------------------------------------------------------
(* The plan of an accepted manifest gives the blocks what they rely on.     *)
(* What the blocks rely on in a planned node.                               *)
Planned(p, n) ==
  LET node == p.nodes[n] IN
  /\ IsFiniteSet(DOMAIN p.links) /\ IsFiniteSet(Linked(p.links, n))
  /\ \A k \in DOMAIN p.links : \A e \in EndsOf(p.links[k]) : e = <<e[1], e[2]>>
  /\ IsFiniteSet(DOMAIN node.interfaces) /\ IsFiniteSet(DOMAIN node.devices)
  /\ DOMAIN node.macs \subseteq DOMAIN node.interfaces \cup DOMAIN node.devices
  /\ IsFiniteSet(node.neighbors) /\ IsFiniteSet(node.rules) /\ IsFiniteSet(DOMAIN node.sysctls)
  /\ IsSequence(node.routes)
  /\ \A d \in OfType(node, "bond") \cup OfType(node, "vrf") :
       /\ IsSequence(node.devices[d].interfaces)
       /\ {"lo", None} \cap Range(node.devices[d].interfaces) = {}
  /\ \A i \in Interfaces(node) :
       /\ IsFiniteSet(AddressesOf(node, i))
       /\ \A a \in AddressesOf(node, i) : a.v \in Families(node)
  /\ node.kind = "bridge" =>
       \A i \in DOMAIN node.bridge.ports :
         /\ IsSequence(node.bridge.ports[i].vlans)
         /\ \A v \in Range(node.bridge.ports[i].vlans) : v.vid \in Int

(* A planned node keeps of a manifest's what names and places things.       *)
LEMMA CompiledDevice ==
  ASSUME NEW d, IsDevice(d)
  PROVE  LET e == CompileDevice(d) IN
         /\ e.type = d.type
         /\ d.type \in {"bond", "vrf"} => e.interfaces = d.interfaces
         /\ d.type = "bond" => e.mode = d.mode /\ e.primary = d.primary
         /\ d.type # "bond" => e = d
         /\ e.addrs = d.addrs /\ e.mac = d.mac
  BY DEF CompileDevice, IsDevice, BondFields

LEMMA CompiledNode ==
  ASSUME NEW node, IsNode(node)
  PROVE  LET c == CompileNode(node) IN
         /\ DOMAIN c.devices = DOMAIN node.devices /\ c.interfaces = node.interfaces
         /\ c.kind = node.kind /\ c.bridge = node.bridge /\ c.routing = node.routing
         /\ \A d \in DOMAIN node.devices : c.devices[d] = CompileDevice(node.devices[d])
         /\ \A t : OfType(c, t) = OfType(node, t)
         /\ Addressed(c) = Addressed(node) /\ Interfaces(c) = Interfaces(node)
         /\ \A i \in Interfaces(node) : AddressesOf(c, i) = AddressesOf(node, i)
<1> DEFINE c == CompileNode(node)
<1>1. /\ DOMAIN c.devices = DOMAIN node.devices /\ c.interfaces = node.interfaces
      /\ c.kind = node.kind /\ c.bridge = node.bridge /\ c.routing = node.routing
      /\ \A d \in DOMAIN node.devices : c.devices[d] = CompileDevice(node.devices[d])
  BY DEF CompileNode
<1> HIDE DEF c
<1>2. \A d \in DOMAIN node.devices :
        c.devices[d].type = node.devices[d].type /\ c.devices[d].addrs = node.devices[d].addrs
  BY <1>1, CompiledDevice DEF IsNode
<1>3. \A t : OfType(c, t) = OfType(node, t)
  BY <1>1, <1>2 DEF OfType
<1>4. Addressed(c) = Addressed(node) /\ Interfaces(c) = Interfaces(node)
  BY <1>1, <1>3 DEF Addressed, Interfaces
<1>5. \A i \in Interfaces(node) : AddressesOf(c, i) = AddressesOf(node, i)
  BY <1>1, <1>2, <1>4 DEF AddressesOf, Interfaces, Addressed
<1> QED
  BY <1>1, <1>3, <1>4, <1>5 DEF c

LEMMA LinkedIsFinite ==
  ASSUME NEW links, IsSequence(links), NEW n
  PROVE  IsFiniteSet(DOMAIN links) /\ IsFiniteSet(Linked(links, n))
<1> DEFINE D == DOMAIN links
           lefts  == [k \in D |-> links[k].left[2]]
           rights == [k \in D |-> links[k].right[2]]
           some   == {lefts[k] : k \in DOMAIN lefts} \cup {rights[k] : k \in DOMAIN rights}
<1>1. IsFiniteSet(D)
  <2>1. D = 1 .. Len(links) /\ Len(links) \in Nat
    BY DEF IsSequence
  <2> QED
    BY <2>1, FS_Interval
<1>2. IsFiniteSet({lefts[k] : k \in DOMAIN lefts}) /\ IsFiniteSet({rights[k] : k \in DOMAIN rights})
  <2>1. DOMAIN lefts = D /\ DOMAIN rights = D
    OBVIOUS
  <2> HIDE DEF lefts, rights
  <2> QED
    BY <1>1, <2>1, ImageIsFinite
<1>3. IsFiniteSet(some)
  BY <1>2, FS_Union
<1>4. Linked(links, n) \subseteq some
  BY DEF Linked, EndsOf
<1> QED
  BY <1>1, <1>3, <1>4, FS_Subset

LEMMA CompiledSetsAreFinite ==
  ASSUME NEW node, IsNode(node)
  PROVE  LET c == CompileNode(node) IN
         /\ IsFiniteSet(c.neighbors) /\ IsFiniteSet(c.rules) /\ IsFiniteSet(DOMAIN c.sysctls)
         /\ IsSequence(c.routes)
<1>1. IsFiniteSet({CompileNeighbor(b) : b \in node.neighbors})
  <2> DEFINE f == [b \in node.neighbors |-> CompileNeighbor(b)]
  <2>1. DOMAIN f = node.neighbors /\ {f[b] : b \in DOMAIN f} = {CompileNeighbor(b) : b \in node.neighbors}
    OBVIOUS
  <2> HIDE DEF f
  <2> QED
    BY ZenonT(40), <2>1, ImageIsFinite DEF IsNode
<1>2. IsFiniteSet({CompileRule(r) : r \in node.rules})
  <2> DEFINE f == [r \in node.rules |-> CompileRule(r)]
  <2>1. DOMAIN f = node.rules /\ {f[r] : r \in DOMAIN f} = {CompileRule(r) : r \in node.rules}
    OBVIOUS
  <2> HIDE DEF f
  <2> QED
    BY ZenonT(40), <2>1, ImageIsFinite DEF IsNode
<1>3. IsFiniteSet(DOMAIN CompileSysctls(node))
  <2> DEFINE P == {b \in node.neighbors : b.proxy}
             f == [b \in P |-> ProxyKey(b)]
             proxies == {f[b] : b \in DOMAIN f}
  <2>0. IsFiniteSet(P)
    BY FS_Subset DEF IsNode
  <2>1. DOMAIN f = P /\ proxies = {ProxyKey(b) : b \in P}
    OBVIOUS
  <2>2. DOMAIN CompileSysctls(node) = DOMAIN node.sysctls \cup {ProxyKey(b) : b \in P}
    BY DEF CompileSysctls
  <2> HIDE DEF f, P
  <2>3. IsFiniteSet(proxies)
    BY <2>0, <2>1, ImageIsFinite
  <2> HIDE DEF proxies
  <2>4. IsFiniteSet(DOMAIN node.sysctls \cup proxies)
    BY <2>3, FS_Union DEF IsNode
  <2> QED
    BY <2>1, <2>2, <2>4
<1>4. IsSequence(CompileNode(node).routes)
  <2> DEFINE routes == [k \in DOMAIN node.routes |-> CompileRoute(node, node.routes[k])]
  <2>1. DOMAIN routes = 1 .. Len(node.routes) /\ Len(node.routes) \in Nat
    BY DEF IsNode, IsSequence
  <2>2. \A k \in DOMAIN routes : routes[k] \in Range(routes)
    BY DEF Range
  <2>3. routes \in [1 .. Len(node.routes) -> Range(routes)]
    BY <2>1, <2>2
  <2>4. CompileNode(node).routes = routes
    BY DEF CompileNode
  <2> HIDE DEF routes
  <2> QED
    BY <2>1, <2>3, <2>4 DEF IsSequence
<1> QED
  BY <1>1, <1>2, <1>3, <1>4 DEF CompileNode

LEMMA MacsHaveOwners ==
  ASSUME NEW node
  PROVE  DOMAIN CompileNode(node).macs \subseteq DOMAIN node.interfaces \cup DOMAIN node.devices
  BY DEF CompileNode, CompileMacs, Addressed

(* Only links, devices and bridges can be given to a bond or a VRF.         *)
LEMMA MembersAreNamed ==
  ASSUME NEW m, IsManifest(m), Accepted(m), NEW n \in DOMAIN m.nodes,
         NEW d \in OfType(m.nodes[n], "bond") \cup OfType(m.nodes[n], "vrf")
  PROVE  {"lo", None} \cap Range(m.nodes[n].devices[d].interfaces) = {}
<1> DEFINE node == m.nodes[n]
<1>1. IsNode(node) /\ ValidNode(node) /\ ValidReferences(m, n) /\ ValidLinks(m)
  BY DEF IsManifest, Accepted
<1>2. {"lo", None} \cap Linked(m.links, n) = {}
  <2>1. \A k \in DOMAIN m.links : \A e \in EndsOf(m.links[k]) : e[2] # "lo" /\ e[2] # None
    BY <1>1 DEF ValidLinks, IsManifest, Range
  <2> QED
    BY <2>1 DEF Linked
<1>3. {"lo", None} \cap DOMAIN node.devices = {}
  BY <1>1 DEF IsNode, ValidNode
<1>4. node.kind = "bridge" => node.bridge.name # "lo" /\ node.bridge.name # None
  BY <1>1 DEF IsNode, IsBridge, ValidNode, ValidBridgeNode, ValidBridge
<1>5. {"lo", None} \cap Available(m, n) = {}
  BY <1>2, <1>3, <1>4 DEF Available, Addressed
<1> QED
  BY <1>1, <1>2, <1>5 DEF ValidReferences, BondFits, OfType

LEMMA AddressFamilies ==
  ASSUME NEW node, NEW i \in Interfaces(node), IsAddressSet(AddressesOf(node, i)),
         NEW a \in AddressesOf(node, i)
  PROVE  a.v \in Families(node)
  BY DEF IsAddressSet, Families

LEMMA PlansArePlanned ==
  ASSUME NEW m, IsManifest(m), Accepted(m), NEW n \in DOMAIN m.nodes
  PROVE  Planned(Plan(m), n)
<1> DEFINE p == Plan(m)
           node == m.nodes[n]
           c == CompileNode(node)
<1>1. p.links = m.links /\ p.nodes[n] = c
  BY DEF Plan
<1>2. IsNode(node) /\ IsSequence(m.links)
  BY DEF IsManifest
<1>3. /\ DOMAIN c.devices = DOMAIN node.devices /\ c.interfaces = node.interfaces
      /\ c.kind = node.kind /\ c.bridge = node.bridge
      /\ \A d \in DOMAIN node.devices : c.devices[d] = CompileDevice(node.devices[d])
      /\ \A t : OfType(c, t) = OfType(node, t)
      /\ Addressed(c) = Addressed(node) /\ Interfaces(c) = Interfaces(node)
      /\ \A i \in Interfaces(node) : AddressesOf(c, i) = AddressesOf(node, i)
  BY <1>2, CompiledNode
<1>4. /\ IsFiniteSet(c.neighbors) /\ IsFiniteSet(c.rules) /\ IsFiniteSet(DOMAIN c.sysctls)
      /\ IsSequence(c.routes)
  BY <1>2, CompiledSetsAreFinite
<1>5. DOMAIN c.macs \subseteq DOMAIN node.interfaces \cup DOMAIN node.devices
  BY MacsHaveOwners
<1> HIDE DEF c
<1>6. IsFiniteSet(DOMAIN m.links) /\ IsFiniteSet(Linked(m.links, n))
  BY <1>2, LinkedIsFinite
<1>7. \A k \in DOMAIN m.links : \A e \in EndsOf(m.links[k]) : e = <<e[1], e[2]>>
  BY DEF IsManifest, Range
<1>8. ASSUME NEW d \in OfType(c, "bond") \cup OfType(c, "vrf")
      PROVE  /\ IsSequence(c.devices[d].interfaces)
             /\ {"lo", None} \cap Range(c.devices[d].interfaces) = {}
  <2>1. d \in OfType(node, "bond") \cup OfType(node, "vrf")
    BY <1>3, <1>8
  <2>2. IsDevice(node.devices[d]) /\ node.devices[d].type \in {"bond", "vrf"} /\ d \in DOMAIN node.devices
    BY <1>2, <2>1 DEF IsNode, OfType
  <2>3. c.devices[d].interfaces = node.devices[d].interfaces
    BY <1>3, <2>2, CompiledDevice
  <2>4. IsSequence(node.devices[d].interfaces)
    BY <2>2 DEF IsDevice
  <2>5. {"lo", None} \cap Range(node.devices[d].interfaces) = {}
    BY <2>1, MembersAreNamed
  <2> QED
    BY <2>3, <2>4, <2>5
<1>9. ASSUME NEW i \in Interfaces(c)
      PROVE  /\ IsFiniteSet(AddressesOf(c, i))
             /\ \A a \in AddressesOf(c, i) : a.v \in Families(c)
  <2>1. IsAddressSet(AddressesOf(c, i))
    BY <1>2, <1>3 DEF IsNode
  <2> QED
    BY <2>1, AddressFamilies DEF IsAddressSet
<1>10. c.kind = "bridge" => \A i \in DOMAIN c.bridge.ports :
         /\ IsSequence(c.bridge.ports[i].vlans)
         /\ \A v \in Range(c.bridge.ports[i].vlans) : v.vid \in Int
  <2>1. c.kind = "bridge" => \A i \in DOMAIN c.bridge.ports : c.bridge.ports[i] \in Range(node.bridge.ports)
    BY <1>3 DEF Range
  <2> QED
    BY <1>2, <1>3, <2>1 DEF IsNode, IsBridge
<1>11. IsFiniteSet(DOMAIN c.interfaces) /\ IsFiniteSet(DOMAIN c.devices)
  BY <1>2, <1>3 DEF IsNode
<1> QED
  BY <1>1, <1>3, <1>4, <1>5, <1>6, <1>7, <1>8, <1>9, <1>10, <1>11 DEF Planned

-----------------------------------------------------------------------------
(* The invariant of the way to a deployment.                                *)

(* The blocks from the addresses on.                                        *)
Late == {"addresses", "routes", "neighbors", "rules", "sysctls"}
(* The daemons' part.                                                       *)
PimregLink == [NewLink("unknown", 1472, "pimreg", NoData) EXCEPT !.up = TRUE]

(* The stages in which namespaces are being made.                           *)
Building == Range(Steps) \cup Range(Blocks)
(* The nodes whose namespace no address has been given to yet.              *)
Untouched(n) ==
  \/ pc \in {"namespaces", "bridges", "veths"}
  \/ n \in todo /\ (n = Next1 => pc \notin Late)

(* What the daemons leave of a namespace that was made.                     *)
Settled(p, n, ns) ==
  LET node == p.nodes[n] IN
  /\ Formed(ns)
  /\ \A i \in DOMAIN ns.links : LinkOrigin(p, n, i, ns.links[i])
  /\ ns.routes \subseteq Range(node.routes) \cup (IF node.routing # None THEN {Learned} ELSE {})
  /\ ns.rules \subseteq node.rules /\ ns.neighbors \subseteq node.neighbors
  /\ Ignored(node) # {} =>
       "pimreg" \in DOMAIN ns.links
         /\ ns.links["pimreg"] = PimregLink

(* The inductive invariant: every namespace is made of the plan alone.      *)
Builds ==
  /\ manifest \in Manifests
  /\ pc \notin {"validate", "refused"} => Accepted(manifest)
  /\ todo \subseteq Nodes /\ (pc \in Range(Blocks) => todo # {})
  /\ pc \in Building => \A n \in Nodes : (pc = "namespaces" => n \notin todo) =>
       /\ n \in DOMAIN space /\ Formed(space[n]) /\ Origin(plan, n, space[n])
       /\ Untouched(n) => Fresh(space[n])
  /\ pc \in {"verify", "deployed"} =>
       DOMAIN space = Nodes /\ \A n \in Nodes : Settled(plan, n, space[n])

LEMMA LoopbackFacts ==
  LET l == EmptyNs.links["lo"] IN
  /\ IsLink(l) /\ l.kind = "loopback" /\ l.data = NoData /\ l.qdisc = None /\ l.alias = None
  /\ Tidy(l.vlans) /\ \A a \in l.addrs : a.v = 4
<1> DEFINE l == NewLink("loopback", 65536, "zeros", NoData)
           A == {[v |-> 4, net |-> "loopback", host |-> 1]}
           m == [l EXCEPT !.up = TRUE, !.addrs = A]
<1>1. /\ IsLink(l) /\ l.qdisc = None /\ l.alias = None /\ l.kind = "loopback" /\ l.data = NoData
      /\ Tidy(l.vlans)
  BY NewLinkFacts
<1>2. \A a \in A : a.v = 4
  OBVIOUS
<1>3. EmptyNs.links["lo"] = m
  BY DEF EmptyNs
<1> HIDE DEF l, A
<1>4. IsLink(m)
  BY <1>1 DEF IsLink, IsFunction, LinkFields
<1>5. /\ m.kind = l.kind /\ m.data = l.data /\ m.qdisc = l.qdisc /\ m.alias = l.alias /\ m.vlans = l.vlans
      /\ m.addrs = A
  BY <1>1 DEF IsLink, LinkFields
<1> HIDE DEF m
<1> QED
  BY <1>1, <1>2, <1>3, <1>4, <1>5

LEMMA PimregFacts ==
  /\ IsLink(PimregLink) /\ PimregLink.qdisc = None /\ PimregLink.alias = None
  /\ Tidy(PimregLink.vlans) /\ PimregLink.addrs = {} /\ PimregLink.kind = "unknown"
<1> DEFINE l == NewLink("unknown", 1472, "pimreg", NoData)
           m == [l EXCEPT !.up = TRUE]
<1>1. /\ IsLink(l) /\ l.qdisc = None /\ l.alias = None /\ l.kind = "unknown" /\ l.addrs = {}
      /\ Tidy(l.vlans)
  BY NewLinkFacts
<1>2. PimregLink = m
  BY DEF PimregLink
<1> HIDE DEF l
<1>3. IsLink(m)
  BY <1>1 DEF IsLink, IsFunction, LinkFields
<1>4. /\ m.kind = l.kind /\ m.qdisc = l.qdisc /\ m.alias = l.alias /\ m.vlans = l.vlans
      /\ m.addrs = l.addrs
  BY <1>1 DEF IsLink, LinkFields
<1> HIDE DEF m
<1> QED
  BY <1>1, <1>2, <1>3, <1>4
(* The names of the stages.                                                 *)
LEMMA StageNames ==
  /\ Range(Steps) = {"namespaces", "bridges", "veths", "configure"}
  /\ Late \subseteq Range(Blocks)
  /\ "interfaces" \in Range(Blocks) /\ "interfaces" \notin Late
  /\ Range(Blocks) \cap (Range(Steps) \cup {"validate", "refused", "compile", "crashed", "verify",
       "failed", "deployed", "unsupported", "mismatch", "drifted"}) = {}
  BY DEF Range, Steps, Blocks, Late

LEMMA AfterABlock ==
  ASSUME NEW block \in Range(Blocks)
  PROVE  /\ After(block) \in Range(Blocks) \cup {"configure"}
         /\ After(block) \notin Late \cup {"configure"} => block \notin Late
<1> DEFINE k == CHOOSE j \in DOMAIN Blocks : Blocks[j] = block
<1>1. k \in DOMAIN Blocks /\ Blocks[k] = block
  BY DEF Range
<1>2. DOMAIN Blocks = 1 .. 19 /\ Len(Blocks) = 19
  BY DEF Blocks
<1>3. After(block) = IF k = Len(Blocks) THEN "configure" ELSE Blocks[k + 1]
  BY DEF After
<1> HIDE DEF k
<1>4. After(block) \in Range(Blocks) \cup {"configure"}
  BY <1>1, <1>2, <1>3 DEF Range
<1>5. block \in Late => k \in 15 .. 19
  BY <1>1, <1>2 DEF Blocks, Late
<1>6. k \in 15 .. 19 => After(block) \in Late \cup {"configure"}
  BY <1>2, <1>3 DEF Blocks, Late
<1> QED
  BY <1>4, <1>5, <1>6

LEMMA PlanKept ==
  ASSUME [Next]_vars
  PROVE  manifest' = manifest /\ plan' = plan /\ Nodes' = Nodes
<1>1. manifest' = manifest
  BY DEF Next, vars, Refuse, Accept, Crash, Compile, CreateNamespaces, CreateBridges, CreatePairs,
         Step, Proceed, StartNode, Configure, StartRouting, Verify, Drift, Lose, Replace, Strand,
         Finished
<1> QED
  BY <1>1 DEF plan, Nodes

(* VLANs in order are all the VLANs: the ranks of their numbers put them in *)
(* order.                                                                   *)
LEMMA OrdersExist ==
  ASSUME NEW V, Tidy(V)
  PROVE  \E s \in [1 .. Cardinality(V) -> V] : \A i, j \in DOMAIN s : i < j => s[i].vid < s[j].vid
<1> DEFINE n == Cardinality(V)
           Below(v) == {w \in V : w.vid <= v.vid}
           rank == [v \in V |-> Cardinality(Below(v))]
           s == [k \in 1 .. n |-> CHOOSE v \in V : rank[v] = k]
<1>1. n \in Nat
  BY FS_CardinalityType DEF Tidy
<1>2. ASSUME NEW v \in V PROVE rank[v] \in 1 .. n /\ IsFiniteSet(Below(v))
  <2>1. Below(v) \in SUBSET V /\ Below(v) # {}
    BY DEF Tidy
  <2> HIDE DEF Below
  <2>2. IsFiniteSet(Below(v)) /\ Cardinality(Below(v)) <= n
    BY <2>1, FS_Subset DEF Tidy
  <2>3. Cardinality(Below(v)) \in Nat /\ Cardinality(Below(v)) # 0
    BY <2>1, <2>2, FS_CardinalityType, FS_EmptySet
  <2> QED
    BY <1>1, <2>2, <2>3
<1>3. ASSUME NEW v \in V, NEW w \in V, v.vid < w.vid PROVE rank[v] < rank[w]
  <2>1. Below(v) \in SUBSET Below(w) /\ w \in Below(w) /\ w \notin Below(v)
    BY <1>3 DEF Tidy
  <2>2. IsFiniteSet(Below(w))
    BY <1>2
  <2> HIDE DEF Below
  <2>3. /\ Cardinality(Below(v)) <= Cardinality(Below(w))
        /\ Cardinality(Below(v)) # Cardinality(Below(w))
    BY <2>1, <2>2, FS_Subset
  <2>4. rank[v] \in Nat /\ rank[w] \in Nat
    BY <1>1, <1>2
  <2> QED
    BY <2>3, <2>4
<1>4. \A v, w \in V : rank[v] = rank[w] => v = w
  <2> SUFFICES ASSUME NEW v \in V, NEW w \in V, rank[v] = rank[w], v # w PROVE FALSE
    OBVIOUS
  <2>1. v.vid \in Int /\ w.vid \in Int /\ v.vid # w.vid
    BY DEF Tidy
  <2>2. v.vid < w.vid \/ w.vid < v.vid
    BY <2>1
  <2>3. rank[v] \in Int
    BY <1>1, <1>2
  <2> HIDE DEF rank
  <2> QED
    BY <1>3, <2>2, <2>3
<1> HIDE DEF Below
<1>5. \A k \in 1 .. n : \E v \in V : rank[v] = k
  <2>1. rank \in [V -> 1 .. n]
    BY <1>2
  <2> HIDE DEF rank
  <2>2. rank \in Injection(V, 1 .. n)
    BY <1>4, <2>1 DEF Injection, IsInjective
  <2>3. IsFiniteSet(1 .. n) /\ Cardinality(1 .. n) = n
    BY <1>1, FS_Interval
  <2>4. rank \in Surjection(V, 1 .. n)
    BY <2>2, <2>3, FS_Injection
  <2> QED
    BY <2>4 DEF Surjection
<1>6. \A k \in 1 .. n : s[k] \in V /\ rank[s[k]] = k
  BY <1>5
<1>7. s \in [1 .. n -> V]
  BY <1>6
<1>8. ASSUME NEW i \in 1 .. n, NEW j \in 1 .. n, i < j PROVE s[i].vid < s[j].vid
  <2>1. s[i] \in V /\ s[j] \in V /\ rank[s[i]] = i /\ rank[s[j]] = j
    BY <1>6
  <2> HIDE DEF s, rank
  <2>2. s[i].vid \in Int /\ s[j].vid \in Int /\ s[i].vid # s[j].vid
    BY <1>8, <2>1 DEF Tidy
  <2>3. ~(s[j].vid < s[i].vid)
    BY <1>1, <1>3, <1>8, <2>1
  <2> QED
    BY <2>2, <2>3
<1> HIDE DEF s, rank, n
<1>9. DOMAIN s = 1 .. n
  BY <1>7
<1> QED
  BY <1>7, <1>8, <1>9 DEF n

LEMMA OrderedAll ==
  ASSUME NEW V, Tidy(V)
  PROVE  Range(InOrder(V)) = V
<1> DEFINE n == Cardinality(V)
           s == InOrder(V)
<1>1. s \in [1 .. n -> V] /\ \A i, j \in DOMAIN s : i < j => s[i].vid < s[j].vid
  BY OrdersExist DEF InOrder
<1>2. n \in Nat /\ IsFiniteSet(V)
  BY FS_CardinalityType DEF Tidy
<1>3. IsFiniteSet(1 .. n) /\ Cardinality(1 .. n) = n
  BY <1>2, FS_Interval
<1> HIDE DEF s
<1>4. DOMAIN s = 1 .. n /\ \A i \in 1 .. n : s[i] \in V /\ s[i].vid \in Int
  BY <1>1 DEF Tidy
<1>5. \A i, j \in 1 .. n : s[i] = s[j] => i = j
  <2> SUFFICES ASSUME NEW i \in 1 .. n, NEW j \in 1 .. n, s[i] = s[j], i # j PROVE FALSE
    OBVIOUS
  <2>1. i < j \/ j < i
    BY <1>2
  <2>2. s[i].vid < s[j].vid \/ s[j].vid < s[i].vid
    BY <1>1, <1>4, <2>1
  <2> QED
    BY <1>4, <2>2
<1>6. s \in Injection(1 .. n, V)
  BY <1>1, <1>4, <1>5 DEF Injection, IsInjective
<1>7. s \in Surjection(1 .. n, V)
  BY <1>2, <1>3, <1>6, FS_Injection
<1> QED
  BY <1>4, <1>7 DEF Surjection, Range, s

LEMMA NothingInOrder == Tidy({}) /\ InOrder({}) = <<>>
<1>1. Tidy({})
  BY FS_EmptySet DEF Tidy
<1>2. InOrder({}) \in [1 .. Cardinality({}) -> {}]
  BY <1>1, OrdersExist DEF InOrder
<1>3. Cardinality({}) = 0
  BY FS_EmptySet
<1>4. InOrder({}) \in [1 .. 0 -> {}]
  BY <1>2, <1>3
<1> HIDE DEF InOrder
<1> QED
  BY <1>1, <1>4

(* The text of the VLANs of a port tells them apart.                        *)
LEMMA VlansAreRead ==
  ASSUME NEW node, NEW ns, NEW i, Tidy(ns.links[i].vlans)
  PROVE  \E V : Tidy(V) /\ ReadVlans(node, ns, i) = InOrder(V)
BY NothingInOrder DEF ReadVlans

LEMMA VlanTextsDiffer ==
  ASSUME NEW V, NEW W, Tidy(V), Tidy(W), VlanText(InOrder(V)) = VlanText(InOrder(W))
  PROVE  InOrder(V) = InOrder(W)
BY OrderedAll DEF VlanText

(* Where the names of a node come from: an endpoint belongs to one link, is *)
(* no device and not the loopback.                                          *)
Placed(p, n) ==
  LET node == p.nodes[n] IN
  /\ \A i \in Linked(p.links, n) :
       /\ i # "lo" /\ i \notin DOMAIN node.devices
       /\ \E k \in DOMAIN p.links : LinksAt(p.links, n, i) = {k}
  /\ \A i : LinksAt(p.links, n, i) # {} => i \in Linked(p.links, n)
  /\ "lo" \notin DOMAIN node.devices /\ "lo" \notin Interfaces(node) /\ "lo" \notin DOMAIN node.macs
  /\ \A d \in DOMAIN node.devices : node.devices[d].type \in DeviceTypes
  /\ node.kind = "bridge" =>
       /\ node.bridge # None /\ node.bridge.vlan_filtering \in BOOLEAN
       /\ node.bridge.name \notin {"lo", None} \cup Linked(p.links, n) \cup DOMAIN node.devices
  /\ DOMAIN p.links = 1 .. Len(p.links) /\ Len(p.links) \in Nat
  /\ \A k \in DOMAIN p.links :
       /\ p.links[k].netem = None \/ p.links[k].qdisc = None
       /\ p.links[k].netem # None => p.links[k].netem.kind = "netem"
       /\ p.links[k].mtu \in Int

LEMMA EndsAreLinked ==
  ASSUME NEW m, IsManifest(m), Accepted(m), NEW n
  PROVE  /\ \A i \in Linked(m.links, n) :
              /\ i # "lo" /\ \E k \in DOMAIN m.links : LinksAt(m.links, n, i) = {k}
         /\ \A i : LinksAt(m.links, n, i) # {} => i \in Linked(m.links, n)
<1>1. \A k \in DOMAIN m.links : \A e \in EndsOf(m.links[k]) :
        e = <<e[1], e[2]>> /\ LinksAt(m.links, e[1], e[2]) = {k} /\ e[2] # "lo"
  BY DEF IsManifest, Accepted, ValidLinks, Range
<1>2. ASSUME NEW i \in Linked(m.links, n)
      PROVE  i # "lo" /\ \E k \in DOMAIN m.links : LinksAt(m.links, n, i) = {k}
  <2>1. PICK k \in DOMAIN m.links : \E e \in EndsOf(m.links[k]) : e[1] = n /\ e[2] = i
    BY DEF Linked
  <2> QED
    BY <1>1, <2>1
<1>3. ASSUME NEW i, LinksAt(m.links, n, i) # {} PROVE i \in Linked(m.links, n)
  <2>1. PICK k \in DOMAIN m.links : <<n, i>> \in EndsOf(m.links[k])
    BY <1>3 DEF LinksAt
  <2> DEFINE e == <<n, i>>
  <2>2. e \in UNION {EndsOf(m.links[j]) : j \in DOMAIN m.links} /\ e[1] = n /\ e[2] = i
    BY <2>1
  <2> HIDE DEF e
  <2> QED
    BY <2>2 DEF Linked
<1> QED
  BY <1>2, <1>3

LEMMA WidthsAreNumbers ==
  ASSUME NEW x, x \in MinMtu .. 9216
  PROVE  x \in Int
<1>1. MinMtu \in Int
  BY DEF MinMtu
<1> QED
  BY <1>1

LEMMA PlansArePlaced ==
  ASSUME NEW m, IsManifest(m), Accepted(m), NEW n \in DOMAIN m.nodes
  PROVE  Placed(Plan(m), n)
<1> DEFINE p == Plan(m)
           node == m.nodes[n]
           c == CompileNode(node)
<1>1. p.links = m.links /\ p.nodes[n] = c
  BY DEF Plan
<1>2. IsNode(node) /\ IsSequence(m.links) /\ ValidNode(node) /\ ValidReferences(m, n) /\ ValidLinks(m)
  BY DEF IsManifest, Accepted
<1>3. /\ DOMAIN c.devices = DOMAIN node.devices /\ c.interfaces = node.interfaces
      /\ c.kind = node.kind /\ c.bridge = node.bridge
      /\ \A d \in DOMAIN node.devices : c.devices[d] = CompileDevice(node.devices[d])
      /\ Interfaces(c) = Interfaces(node)
  BY <1>2, CompiledNode
<1>4. DOMAIN c.macs \subseteq DOMAIN node.interfaces \cup DOMAIN node.devices
  BY MacsHaveOwners
<1> HIDE DEF c
<1>5. /\ \A i \in Linked(m.links, n) :
           /\ i # "lo" /\ \E k \in DOMAIN m.links : LinksAt(m.links, n, i) = {k}
      /\ \A i : LinksAt(m.links, n, i) # {} => i \in Linked(m.links, n)
  BY EndsAreLinked
<1>6. DOMAIN node.devices \cap Linked(m.links, n) = {} /\ "lo" \notin DOMAIN node.devices
  BY <1>2 DEF ValidReferences, ValidNode
<1>7. node.kind = "bridge" =>
        /\ node.bridge # None /\ node.bridge.vlan_filtering \in BOOLEAN
        /\ node.bridge.name \notin {"lo", None} \cup Linked(m.links, n) \cup DOMAIN node.devices
  BY <1>2 DEF IsNode, IsBridge, ValidNode, ValidBridgeNode, ValidBridge, ValidReferences, ValidPorts
<1>8. "lo" \notin DOMAIN node.interfaces \cup DOMAIN node.devices
  BY <1>2, <1>5, <1>6, <1>7 DEF ValidReferences, Available, Addressed
<1>9. "lo" \notin Interfaces(node)
  BY <1>8 DEF Interfaces, Addressed
<1>10. \A d \in DOMAIN node.devices : c.devices[d].type \in DeviceTypes
  BY <1>2, <1>3, CompiledDevice DEF IsNode, IsDevice
<1>11. DOMAIN m.links = 1 .. Len(m.links) /\ Len(m.links) \in Nat
  BY <1>2 DEF IsSequence
<1>12. ASSUME NEW k \in DOMAIN m.links
       PROVE  /\ m.links[k].netem = None \/ m.links[k].qdisc = None
              /\ m.links[k].netem # None => m.links[k].netem.kind = "netem"
              /\ m.links[k].mtu \in Int
  <2>1. ValidLink(m.links[k])
    BY <1>2 DEF ValidLinks
  <2>2. m.links[k] \in Range(m.links)
    BY DEF Range
  <2>3. m.links[k].netem = None \/ m.links[k].qdisc = None
    BY <2>1 DEF ValidLink
  <2>4. m.links[k].mtu \in Int
    <3>1. m.links[k].mtu \in MinMtu .. 9216
      BY <2>1 DEF ValidLink
    <3> QED
      BY <3>1, WidthsAreNumbers
  <2>5. m.links[k].netem # None => m.links[k].netem.kind = "netem"
    BY <2>2 DEF IsManifest
  <2> QED
    BY <2>3, <2>4, <2>5
<1> QED
  BY <1>1, <1>3, <1>4, <1>5, <1>6, <1>7, <1>8, <1>9, <1>10, <1>11, <1>12 DEF Placed

(* What one change leaves alone, as far as the texts of inspect depend on   *)
(* it.                                                                      *)
Remains(ns, s) ==
  /\ DOMAIN s.links \subseteq DOMAIN ns.links
  /\ \A i \in DOMAIN s.links :
       /\ s.links[i].kind = ns.links[i].kind /\ s.links[i].data = ns.links[i].data
       /\ s.links[i].qdisc \in {None, ns.links[i].qdisc}
       /\ Tidy(s.links[i].vlans)

LEMMA ExpectedDataIsFunction ==
  ASSUME NEW p, NEW n, NEW i
  PROVE  IsFunction(Expected(p, n, i).data)
<1>1. \A d : IsFunction(DataOf(d))
  BY DEF DataOf, IsFunction, NoData
<1>2. \A kind : IsFunction(Plain(kind).data)
  BY DEF Plain, IsFunction, NoData
<1>3. IsFunction(ExpectedDevice(p, n, i).data)
  <2> DEFINE dev == p.nodes[n].devices[i]
             data == CASE dev.type = "bond" ->
                     [link |-> None, mode |-> dev.mode, miimon |-> dev.miimon,
                      lacp_rate |-> dev.lacp_rate, xmit_hash_policy |-> dev.xmit_hash_policy,
                      min_links |-> dev.min_links, primary |-> dev.primary]
                [] dev.type = "vrf"    -> [link |-> None, table |-> dev.table]
                [] dev.type = "geneve" -> [DataOf(dev) EXCEPT !.link = dev.link]
                [] OTHER -> DataOf(dev)
  <2>1. IsFunction(data)
    <3>1. CASE dev.type = "bond"
      BY <3>1 DEF IsFunction
    <3>2. CASE dev.type = "vrf"
      BY <3>2 DEF IsFunction
    <3>3. CASE dev.type = "geneve"
      BY <3>3 DEF IsFunction
    <3>4. CASE dev.type \notin {"bond", "vrf", "geneve"}
      BY <1>1, <3>4
    <3> QED
      BY <3>1, <3>2, <3>3, <3>4
  <2> HIDE DEF data
  <2>2. ExpectedDevice(p, n, i).data = data
    BY DEF ExpectedDevice, Plain, data
  <2> QED
    BY <2>1, <2>2
<1>4. /\ Loopback.data = Plain("loopback").data
      /\ ExpectedBridge(p.nodes[n]).data = Plain("bridge").data
      /\ ExpectedEnd(p, n, i).data = Plain("veth").data
  BY DEF Loopback, ExpectedBridge, ExpectedEnd, Plain
<1>5. /\ "data" \in DOMAIN Loopback /\ "data" \in DOMAIN ExpectedBridge(p.nodes[n])
      /\ "data" \in DOMAIN ExpectedEnd(p, n, i) /\ "data" \in DOMAIN ExpectedDevice(p, n, i)
  BY DEF Loopback, ExpectedBridge, ExpectedEnd, ExpectedDevice, Plain
<1>6. Expected(p, n, i).data \in {Loopback.data, ExpectedDevice(p, n, i).data, ExpectedEnd(p, n, i).data,
                                  ExpectedBridge(p.nodes[n]).data}
  BY <1>5 DEF Expected
<1> QED
  BY <1>2, <1>3, <1>4, <1>6

(* The qdisc a plan expects of an interface is that of its link.            *)
LEMMA ExpectedQdisc ==
  ASSUME NEW p, NEW n, Placed(p, n), NEW i \in Linked(p.links, n),
         NEW k \in DOMAIN p.links, LinksAt(p.links, n, i) = {k}
  PROVE  Expected(p, n, i).qdisc = IF p.links[k].netem # None THEN p.links[k].netem ELSE p.links[k].qdisc
<1>1. (CHOOSE j \in LinksAt(p.links, n, i) : TRUE) = k
  OBVIOUS
<1>2. ExpectedEnd(p, n, i).qdisc = IF p.links[k].netem # None THEN p.links[k].netem ELSE p.links[k].qdisc
  BY <1>1 DEF ExpectedEnd, Plain
<1>3. "qdisc" \in DOMAIN ExpectedEnd(p, n, i)
  BY DEF ExpectedEnd, Plain
<1> QED
  BY <1>2, <1>3 DEF Expected, Placed

(* A token bucket that is not rounded is read as it was declared.           *)
LEMMA QdiscIsExact ==
  ASSUME NEW m, NEW n, NEW i, NEW raw, Placed(Plan(m), n), ~Rounded(m),
         raw # None => \E k \in LinksAt(m.links, n, i) : raw = Shape(m.links[k]),
         QdiscMatches(Expected(Plan(m), n, i).qdisc, Qdisc(Plan(m), n, i, raw))
  PROVE  Expected(Plan(m), n, i).qdisc = Qdisc(Plan(m), n, i, raw)
<1> DEFINE p == Plan(m)
           desired == Expected(p, n, i).qdisc
           observed == Qdisc(p, n, i, raw)
<1>1. p.links = m.links
  BY DEF Plan
<1> HIDE DEF p
<1> SUFFICES ASSUME desired # None, observed # None, desired.kind = "tbf", observed.kind = "tbf"
             PROVE  desired = observed
  BY DEF QdiscMatches, p
<1>2. i \in ShapedEnds(p, n) /\ raw # None
  BY DEF Qdisc
<1>3. i \in Linked(p.links, n)
  BY <1>2 DEF ShapedEnds
<1>4. PICK k \in DOMAIN p.links : LinksAt(p.links, n, i) = {k}
  BY <1>3 DEF Placed, p
<1>5. desired = IF p.links[k].netem # None THEN p.links[k].netem ELSE p.links[k].qdisc
  BY <1>3, <1>4, ExpectedQdisc DEF p
<1>6. p.links[k].netem # None => p.links[k].netem.kind = "netem"
  BY DEF Placed, p
<1> DEFINE q == p.links[k].qdisc
<1>7. p.links[k].netem = None /\ desired = q /\ q # None /\ q.kind = "tbf"
  BY <1>5, <1>6
<1>8. raw = Shape(p.links[k])
  BY <1>1, <1>2, <1>4
<1>9. raw = Ticks(q)
  BY <1>7, <1>8 DEF Shape
<1>10. raw.kind = "tbf"
  BY <1>9 DEF Ticks
<1> HIDE DEF desired, q
<1>11. observed = Decoded(raw)
  BY <1>2, <1>10 DEF Qdisc
<1>12. p.links[k] \in Range(m.links)
  BY <1>1 DEF Range
<1>13. Decoded(Ticks(q)) = q
  BY <1>7, <1>12 DEF Rounded, q
<1> QED
  BY <1>7, <1>9, <1>11, <1>13

(* What a topology that was verified is told by, however much of it         *)
(* remains.                                                                 *)
LEMMA SeenBefore ==
  ASSUME NEW p, NEW n, NEW ns, InterfacesMatch(p, n, Present(p, n, ns).interfaces),
         NEW i \in ExpectedNames(p, n)
  PROVE  i \in DOMAIN ns.links /\ InterfaceMatches(Expected(p, n, i), Interface(p, n, ns, i))
<1> DEFINE seen == Present(p, n, ns).interfaces
<1>1. seen = [j \in DOMAIN ns.links |-> Interface(p, n, ns, j)]
  BY DEF Present
<1>2. InterfacesMatch(p, n, seen)
  OBVIOUS
<1> HIDE DEF seen
<1>3. i \in DOMAIN seen /\ InterfaceMatches(Expected(p, n, i), seen[i])
  BY <1>2 DEF InterfacesMatch
<1> QED
  BY <1>1, <1>3

LEMMA InterfaceFields ==
  ASSUME NEW p, NEW n, NEW ns, NEW i
  PROVE  LET node == p.nodes[n] l == ns.links[i] r == Interface(p, n, ns, i) IN
         /\ r.kind = l.kind /\ r.master = l.master /\ r.mtu = l.mtu /\ r.up = l.up
         /\ r.addrs = ReadAddresses(node, l) /\ r.mac = l.mac
         /\ r.stp = BridgeSetting(l, "stp") /\ r.vlan_filtering = BridgeSetting(l, "vlan_filtering")
         /\ r.priority = BridgeSetting(l, "priority")
         /\ r.port = ReadPort(ns, i) /\ r.vlans = ReadVlans(node, ns, i)
         /\ r.qdisc = Qdisc(p, n, i, l.qdisc) /\ r.data = Attributes(l) /\ r.link_id = l.alias
  BY DEF Interface

LEMMA RemainingIsLegible ==
  ASSUME NEW m, NEW n, NEW ns, NEW s, Placed(Plan(m), n), Settled(Plan(m), n, ns),
         InterfacesMatch(Plan(m), n, Present(Plan(m), n, ns).interfaces), Remains(ns, s),
         NEW i \in ExpectedNames(Plan(m), n), i \in DOMAIN s.links
  PROVE  LET desired == Expected(Plan(m), n, i) observed == Interface(Plan(m), n, s, i) IN
         /\ Legible(desired, observed)
         /\ ~Rounded(m) /\ QdiscMatches(desired.qdisc, observed.qdisc) => desired.qdisc = observed.qdisc
<1> DEFINE p == Plan(m)
           desired == Expected(p, n, i)
           before == Interface(p, n, ns, i)
           observed == Interface(p, n, s, i)
<1>1. i \in DOMAIN ns.links /\ InterfaceMatches(desired, before)
  BY SeenBefore
<1>2. /\ before.kind = ns.links[i].kind /\ before.vlans = ReadVlans(p.nodes[n], ns, i)
      /\ before.qdisc = Qdisc(p, n, i, ns.links[i].qdisc) /\ before.data = Attributes(ns.links[i])
  BY InterfaceFields
<1>3. /\ observed.kind = s.links[i].kind /\ observed.vlans = ReadVlans(p.nodes[n], s, i)
      /\ observed.qdisc = Qdisc(p, n, i, s.links[i].qdisc) /\ observed.data = Attributes(s.links[i])
  BY InterfaceFields
<1>4. /\ s.links[i].kind = ns.links[i].kind /\ s.links[i].data = ns.links[i].data
      /\ s.links[i].qdisc \in {None, ns.links[i].qdisc} /\ Tidy(s.links[i].vlans)
  BY DEF Remains
<1>5. LinkOrigin(p, n, i, ns.links[i])
  BY <1>1 DEF Settled
<1>6. IsFunction(desired.data)
  BY ExpectedDataIsFunction
<1>7. Placed(p, n)
  OBVIOUS
<1>8. p.links = m.links
  BY DEF Plan
<1> HIDE DEF p, desired, before, observed
<1>9. VlanText(desired.vlans) = VlanText(observed.vlans) => desired.vlans = observed.vlans
  <2>1. desired.vlans = before.vlans
    BY <1>1 DEF InterfaceMatches
  <2>2. PICK V : Tidy(V) /\ before.vlans = InOrder(V)
    BY <1>2, <1>5, VlansAreRead DEF LinkOrigin
  <2>3. PICK W : Tidy(W) /\ observed.vlans = InOrder(W)
    BY <1>3, <1>4, VlansAreRead
  <2> QED
    BY <2>1, <2>2, <2>3, VlanTextsDiffer
<1>10. observed.qdisc \in {None, before.qdisc}
  BY <1>2, <1>3, <1>4 DEF Qdisc
<1>11. QdiscMatches(desired.qdisc, before.qdisc)
  BY <1>1 DEF InterfaceMatches
<1>12. QdiscText(desired.qdisc) = QdiscText(observed.qdisc) => QdiscMatches(desired.qdisc, observed.qdisc)
  <2> SUFFICES ASSUME observed.qdisc = None, QdiscText(desired.qdisc) = None
               PROVE  desired.qdisc = None
    BY <1>10, <1>11 DEF QdiscText, QdiscMatches
  <2> SUFFICES ASSUME desired.qdisc # None, desired.qdisc.kind = "red" PROVE FALSE
    BY DEF QdiscText
  <2>1. QdiscText(desired.qdisc) = [kind |-> "red"]
    BY DEF QdiscText
  <2> QED
    BY <2>1, TextsAssumption
<1>13. observed.data = before.data /\ observed.kind = before.kind
  BY <1>2, <1>3, <1>4 DEF Attributes
<1>14. SameFieldsOf(desired.data, observed.data)
  <2>1. DataMatches(desired, before)
    BY <1>1 DEF InterfaceMatches
  <2>2. CASE before.data = desired.data
    BY <1>6, <1>13, <2>2 DEF SameFieldsOf, IsFunction
  <2>3. CASE before.data = [desired.data EXCEPT !.link = None]
    BY <1>13, <2>3 DEF SameFieldsOf
  <2> QED
    BY <2>1, <2>2, <2>3 DEF DataMatches
<1>15. Legible(desired, observed)
  BY <1>9, <1>12, <1>14 DEF Legible
<1>16. ASSUME ~Rounded(m), QdiscMatches(desired.qdisc, observed.qdisc)
       PROVE  desired.qdisc = observed.qdisc
  <2> DEFINE raw == s.links[i].qdisc
  <2>1. raw # None => \E k \in LinksAt(m.links, n, i) : raw = Shape(m.links[k])
    BY <1>4, <1>5, <1>8 DEF LinkOrigin
  <2> HIDE DEF raw
  <2>2. QdiscMatches(Expected(Plan(m), n, i).qdisc, Qdisc(Plan(m), n, i, raw))
    BY <1>3, <1>16 DEF raw, p, desired
  <2>3. Expected(Plan(m), n, i).qdisc = Qdisc(Plan(m), n, i, raw)
    BY <1>16, <2>1, <2>2, QdiscIsExact
  <2> QED
    BY <1>3, <2>3 DEF raw, p, desired
<1> QED
  BY <1>15, <1>16 DEF p, desired, observed

(* The two judgements of a topology that was verified and then changed.     *)
LEMMA ChangedIsLegible ==
  ASSUME Builds, Known1, pc = "deployed",
         NEW w, NEW r, DOMAIN w \subseteq Nodes, \A n \in DOMAIN w : Remains(space[n], w[n])
  PROVE  LET inv == Inventory(plan, w, r) IN
         /\ DOMAIN inv.namespaces = DOMAIN plan.nodes
         /\ AllLegible(plan, inv) /\ Apart(plan, inv) /\ (~Rounded(manifest) => Exact(plan, inv))
<1> DEFINE inv == Inventory(plan, w, r)
<1>1. IsManifest(manifest) /\ Accepted(manifest) /\ Nodes = DOMAIN plan.nodes
  BY ManifestsAssumption DEF Builds, plan, Plan, Nodes
<1>2. /\ DOMAIN space = Nodes /\ \A n \in Nodes : Settled(plan, n, space[n])
      /\ Matches(plan, inventory)
  BY DEF Builds, Known1
<1>3. ASSUME NEW n \in Nodes
      PROVE  /\ Placed(plan, n) /\ Settled(plan, n, space[n])
             /\ InterfacesMatch(plan, n, Present(plan, n, space[n]).interfaces)
  <2>1. inventory.namespaces[n] = Present(plan, n, space[n])
    BY <1>1, <1>2 DEF inventory, Inventory
  <2>2. Placed(plan, n)
    BY <1>1, PlansArePlaced DEF plan, Nodes
  <2> QED
    BY <1>1, <1>2, <2>1, <2>2 DEF Matches
<1>4. \A n \in Nodes : inv.namespaces[n] = IF n \in DOMAIN w THEN Present(plan, n, w[n]) ELSE Absent
  BY <1>1 DEF Inventory
<1>5. ASSUME NEW n \in DOMAIN w
      PROVE  inv.namespaces[n].interfaces = [j \in DOMAIN w[n].links |-> Interface(plan, n, w[n], j)]
  <2>1. inv.namespaces[n] = Present(plan, n, w[n])
    BY <1>4
  <2> QED
    BY <2>1 DEF Present
<1>6. ASSUME NEW n \in Nodes, n \notin DOMAIN w
      PROVE  inv.namespaces[n].exists = FALSE /\ DOMAIN inv.namespaces[n].interfaces = {}
  BY <1>4, <1>6 DEF Absent
<1>7. DOMAIN inv.namespaces = DOMAIN plan.nodes
  BY DEF Inventory
<1> HIDE DEF inv
<1>8. ASSUME NEW n \in DOMAIN w, NEW i \in ExpectedNames(plan, n), i \in DOMAIN w[n].links
      PROVE  LET desired == Expected(plan, n, i) observed == Interface(plan, n, w[n], i) IN
             /\ Legible(desired, observed)
             /\ ~Rounded(manifest) /\ QdiscMatches(desired.qdisc, observed.qdisc)
                  => desired.qdisc = observed.qdisc
  BY <1>3, <1>8, RemainingIsLegible DEF plan
<1>9. AllLegible(plan, inv)
  <2> SUFFICES ASSUME NEW n \in DOMAIN plan.nodes, inv.namespaces[n].exists,
                      NEW i \in ExpectedNames(plan, n), i \in DOMAIN inv.namespaces[n].interfaces
               PROVE  Legible(Expected(plan, n, i), inv.namespaces[n].interfaces[i])
    BY DEF AllLegible
  <2>1. n \in DOMAIN w
    BY <1>1, <1>6
  <2> QED
    BY <1>5, <1>8, <2>1
<1>10. Apart(plan, inv)
  <2> SUFFICES ASSUME NEW n \in Nodes
               PROVE  /\ ExpectedNames(plan, n) \cap Ignored(plan.nodes[n]) = {}
                      /\ \A i \in DOMAIN inv.namespaces[n].interfaces \cap Ignored(plan.nodes[n]) :
                           inv.namespaces[n].interfaces[i].kind # "veth"
                      /\ \A d \in DOMAIN plan.nodes[n].devices : plan.nodes[n].devices[d].type # "veth"
    BY <1>1 DEF Apart
  <2>1. ExpectedNames(plan, n) \cap Ignored(plan.nodes[n]) = {}
    BY <1>1, RuntimeNamesAreFree DEF plan, Nodes
  <2>2. \A d \in DOMAIN plan.nodes[n].devices : plan.nodes[n].devices[d].type # "veth"
    BY <1>3 DEF Placed, DeviceTypes, Stacked
  <2>3. ASSUME NEW i \in DOMAIN inv.namespaces[n].interfaces \cap Ignored(plan.nodes[n])
        PROVE  inv.namespaces[n].interfaces[i].kind # "veth"
    <3>1. n \in DOMAIN w
      BY <1>6, <2>3
    <3>2. i = "pimreg"
      BY DEF Ignored
    <3>3. space[n].links[i].kind = "unknown"
      BY <1>3, <2>3, <3>2, PimregFacts DEF Settled
    <3>4. w[n].links[i].kind = "unknown"
      BY <1>5, <2>3, <3>1, <3>3 DEF Remains
    <3>5. inv.namespaces[n].interfaces[i] = Interface(plan, n, w[n], i)
      BY <1>5, <2>3, <3>1
    <3> QED
      BY <3>4, <3>5, InterfaceFields
  <2> QED
    BY <2>1, <2>2, <2>3
<1>11. ~Rounded(manifest) => Exact(plan, inv)
  <2> SUFFICES ASSUME ~Rounded(manifest), NEW n \in DOMAIN plan.nodes,
                      NEW i \in ExpectedNames(plan, n) \cap DOMAIN inv.namespaces[n].interfaces,
                      QdiscMatches(Expected(plan, n, i).qdisc, inv.namespaces[n].interfaces[i].qdisc)
               PROVE  Expected(plan, n, i).qdisc = inv.namespaces[n].interfaces[i].qdisc
    BY DEF Exact
  <2>1. n \in DOMAIN w
    BY <1>1, <1>6
  <2> QED
    BY <1>5, <1>8, <2>1
<1> QED
  BY <1>7, <1>9, <1>10, <1>11 DEF inv

(* What each change is made to, and what it makes of it.                    *)
OfLinks  == {"down", "mtu", "mac", "address", "unaddress", "release", "delete"}
OfPorts  == {"vlan", "unvlan", "flag"}
OfVeths  == {"qdisc", "options", "alias"}
OfPolicy == {"unroute", "route", "unrule", "forget", "age", "sysctl"}

LEMMA LinkChangesAre ==
  ASSUME NEW ns, NEW c \in LinkChanges(ns)
  PROVE  /\ c.do \in OfLinks /\ c.at \in DOMAIN ns.links
         /\ c.do = "mtu" => c.to = 1400
         /\ c.do = "mac" => c.to = "forged"
         /\ c.do = "address" => c.to = Foreign
         /\ c.do = "unaddress" => c.to \in ns.links[c.at].addrs
<1>1. PICK i \in DOMAIN ns.links :
        \/ c \in {Change("down", i, None), Change("mtu", i, 1400), Change("mac", i, "forged"),
                  Change("address", i, Foreign), Change("release", i, None), Change("delete", i, None)}
        \/ \E a \in ns.links[i].addrs : c = Change("unaddress", i, a)
  BY DEF LinkChanges
<1>2. \A do, at, to : Change(do, at, to).do = do /\ Change(do, at, to).at = at /\ Change(do, at, to).to = to
  BY DEF Change
<1> HIDE DEF Foreign
<1> QED
  BY <1>1, <1>2 DEF OfLinks

LEMMA PortChangesAre ==
  ASSUME NEW ns, NEW c \in PortChanges(ns)
  PROVE  /\ c.do \in OfPorts /\ c.at \in DOMAIN ns.links /\ IsPort(ns, c.at)
         /\ c.do = "vlan" => c.to = [vid |-> 77, pvid |-> FALSE, untagged |-> FALSE]
         /\ c.do = "flag" => /\ c.to[1] \in {"hairpin", "isolated", "learning"}
                             /\ c.to[2] # ns.links[c.at].port[c.to[1]]
<1> DEFINE tag == [vid |-> 77, pvid |-> FALSE, untagged |-> FALSE]
<1>1. PICK i \in DOMAIN ns.links :
        /\ IsPort(ns, i)
        /\ \/ c = Change("vlan", i, tag)
           \/ \E v \in ns.links[i].vlans : c = Change("unvlan", i, v.vid)
           \/ \E s \in {"hairpin", "isolated", "learning"} :
                \E b \in BOOLEAN \ {ns.links[i].port[s]} : c = Change("flag", i, <<s, b>>)
  BY DEF PortChanges
<1>2. \A do, at, to : Change(do, at, to).do = do /\ Change(do, at, to).at = at /\ Change(do, at, to).to = to
  BY DEF Change
<1> HIDE DEF tag
<1>3. CASE c = Change("vlan", i, tag)
  BY <1>1, <1>2, <1>3 DEF OfPorts, tag
<1>4. CASE \E v \in ns.links[i].vlans : c = Change("unvlan", i, v.vid)
  BY <1>1, <1>2, <1>4 DEF OfPorts
<1>5. CASE \E s \in {"hairpin", "isolated", "learning"} :
             \E b \in BOOLEAN \ {ns.links[i].port[s]} : c = Change("flag", i, <<s, b>>)
  <2>0. PICK s \in {"hairpin", "isolated", "learning"} :
          \E b \in BOOLEAN \ {ns.links[i].port[s]} : c = Change("flag", i, <<s, b>>)
    BY <1>5
  <2>1. PICK b \in BOOLEAN \ {ns.links[i].port[s]} : c = Change("flag", i, <<s, b>>)
    BY <2>0
  <2> DEFINE to == <<s, b>>
  <2>2. to[1] = s /\ to[2] = b
    OBVIOUS
  <2>3. c.do = "flag" /\ c.at = i /\ c.to = to
    BY <1>2, <2>1
  <2> HIDE DEF to
  <2> QED
    BY <1>1, <2>2, <2>3 DEF OfPorts
<1> QED
  BY <1>1, <1>3, <1>4, <1>5

LEMMA VethChangesAre ==
  ASSUME NEW ns, NEW c \in VethChanges(ns)
  PROVE  /\ c.do \in OfVeths /\ c.at \in DOMAIN ns.links /\ ns.links[c.at].kind = "veth"
         /\ c.do = "qdisc" => c.to = None
         /\ c.do = "options" => c.to = 2
         /\ c.do = "alias" => c.to = 0
<1>1. PICK i \in DOMAIN ns.links :
        /\ ns.links[i].kind = "veth"
        /\ c \in {Change("qdisc", i, None), Change("options", i, 2), Change("alias", i, 0)}
  BY DEF VethChanges
<1>2. \A do, at, to : Change(do, at, to).do = do /\ Change(do, at, to).at = at /\ Change(do, at, to).to = to
  BY DEF Change
<1> QED
  BY <1>1, <1>2 DEF OfVeths

LEMMA PolicyChangesAre ==
  ASSUME NEW ns, NEW c \in PolicyChanges(ns)
  PROVE  /\ c.do \in OfPolicy
         /\ c.do = "unroute" => c.at \in ns.routes
         /\ c.do = "route" => c.at = RouteTo([v |-> 4, net |-> "foreign"], "lo", Main)
         /\ c.do = "unrule" => c.at \in ns.rules
         /\ c.do = "forget" => c.at \in ns.neighbors
         /\ c.do = "age" => c.at \in ns.neighbors /\ c.to = "stale"
         /\ c.do = "sysctl" => c.at \in DOMAIN ns.sysctls /\ c.to # ns.sysctls[c.at]
<1> DEFINE r == RouteTo([v |-> 4, net |-> "foreign"], "lo", Main)
<1> HIDE DEF r
<1>1. \/ \E x \in ns.routes : c = Change("unroute", x, None)
      \/ c = Change("route", r, None)
      \/ \E x \in ns.rules : c = Change("unrule", x, None)
      \/ \E b \in ns.neighbors : c = Change("forget", b, None)
      \/ \E b \in ns.neighbors : c = Change("age", b, "stale")
      \/ \E k \in DOMAIN ns.sysctls : \E x \in {0, 1} \ {ns.sysctls[k]} : c = Change("sysctl", k, x)
  BY DEF PolicyChanges, r
<1>2. \A do, at, to : Change(do, at, to).do = do /\ Change(do, at, to).at = at /\ Change(do, at, to).to = to
  BY DEF Change
<1>3. CASE \E x \in ns.routes : c = Change("unroute", x, None)
  BY <1>2, <1>3 DEF OfPolicy
<1>4. CASE c = Change("route", r, None)
  BY <1>2, <1>4 DEF OfPolicy, r
<1>5. CASE \E x \in ns.rules : c = Change("unrule", x, None)
  BY <1>2, <1>5 DEF OfPolicy
<1>6. CASE \E b \in ns.neighbors : c = Change("forget", b, None) \/ c = Change("age", b, "stale")
  BY <1>2, <1>6 DEF OfPolicy
<1>7. CASE \E k \in DOMAIN ns.sysctls : \E x \in {0, 1} \ {ns.sysctls[k]} : c = Change("sysctl", k, x)
  BY <1>2, <1>7 DEF OfPolicy
<1> QED
  BY <1>1, <1>3, <1>4, <1>5, <1>6, <1>7

(* One link differs, in some of its fields, and nothing else.               *)
Touches(ns, s, i, F) ==
  /\ DOMAIN s.links = DOMAIN ns.links
  /\ \A j \in DOMAIN ns.links : j # i => s.links[j] = ns.links[j]
  /\ \A f \in LinkFields \ F : s.links[i][f] = ns.links[i][f]
  /\ s.routes = ns.routes /\ s.rules = ns.rules /\ s.neighbors = ns.neighbors
  /\ s.sysctls = ns.sysctls

LEMMA OneLinkChanges ==
  ASSUME NEW ns, Formed(ns), NEW i \in DOMAIN ns.links, NEW l
  PROVE  LET s == [ns EXCEPT !.links[i] = l] IN
         /\ DOMAIN s.links = DOMAIN ns.links /\ s.links[i] = l
         /\ \A j \in DOMAIN ns.links : j # i => s.links[j] = ns.links[j]
         /\ s.routes = ns.routes /\ s.rules = ns.rules /\ s.neighbors = ns.neighbors
         /\ s.sysctls = ns.sysctls
  BY DEF Formed, NsFields

SetField(ns, i, f, v) == [ns EXCEPT !.links[i] = [ns.links[i] EXCEPT ![f] = v]]

LEMMA OneFieldChanges ==
  ASSUME NEW ns, Formed(ns), NEW i \in DOMAIN ns.links, NEW f \in LinkFields, NEW v
  PROVE  LET s == SetField(ns, i, f, v) IN
         /\ \A F : f \in F => Touches(ns, s, i, F)
         /\ s.links[i][f] = v
         /\ s # ns => v # ns.links[i][f]
<1> DEFINE l == ns.links[i]
           m == [l EXCEPT ![f] = v]
           s == SetField(ns, i, f, v)
<1>1. IsLink(l)
  BY DEF Formed
<1>2. m[f] = v /\ \A g \in LinkFields \ {f} : m[g] = l[g]
  BY <1>1 DEF IsLink
<1>3. s = [ns EXCEPT !.links[i] = m]
  BY DEF SetField
<1>4. v = l[f] => m = l
  BY <1>1 DEF IsLink, IsFunction
<1>5. m = l => s = ns
  BY <1>3 DEF Formed, IsFunction, NsFields
<1> HIDE DEF m, s
<1>6. s.links[i] = m
  <2>1. s.links = [ns.links EXCEPT ![i] = m]
    BY <1>3 DEF Formed, NsFields
  <2> QED
    BY <2>1
<1>7. ASSUME NEW F, f \in F PROVE Touches(ns, s, i, F)
  <2>1. \A g \in LinkFields \ F : m[g] = ns.links[i][g]
    BY <1>2, <1>7
  <2>2. /\ DOMAIN s.links = DOMAIN ns.links
        /\ \A j \in DOMAIN ns.links : j # i => s.links[j] = ns.links[j]
        /\ s.routes = ns.routes /\ s.rules = ns.rules /\ s.neighbors = ns.neighbors
        /\ s.sysctls = ns.sysctls
    BY <1>3, OneLinkChanges
  <2> QED
    BY <1>6, <2>1, <2>2 DEF Touches
<1> QED
  BY <1>2, <1>4, <1>5, <1>6, <1>7 DEF s

(* A change to one field of a link.                                         *)
Varies(ns, c, f, v) ==
  /\ Touches(ns, Changed(ns, c), c.at, {f})
  /\ Changed(ns, c).links[c.at][f] = v
  /\ v # ns.links[c.at][f]

LEMMA ChangesAre ==
  ASSUME NEW ns, NEW c \in Changes(ns)
  PROVE  /\ \/ c \in LinkChanges(ns) \/ c \in PortChanges(ns) \/ c \in VethChanges(ns)
            \/ c \in PolicyChanges(ns)
         /\ c.do \in OfLinks \cup OfPorts \cup OfVeths \cup OfPolicy
         /\ c.do \notin OfPolicy => c.at \in DOMAIN ns.links
         /\ Changed(ns, c) # ns
  BY LinkChangesAre, PortChangesAre, VethChangesAre, PolicyChangesAre
     DEF Changes, OfLinks, OfPorts, OfVeths, OfPolicy

LEMMA FieldVaries ==
  ASSUME NEW ns, Formed(ns), NEW c \in Changes(ns), NEW f \in LinkFields, NEW v,
         c.do \notin OfPolicy,
         Changed(ns, c) = [ns EXCEPT !.links[c.at] = [ns.links[c.at] EXCEPT ![f] = v]]
  PROVE  Varies(ns, c, f, v)
<1> DEFINE i == c.at
           s == Changed(ns, c)
<1>1. i \in DOMAIN ns.links /\ s # ns
  BY ChangesAre
<1>2. s = SetField(ns, i, f, v)
  BY DEF SetField
<1> HIDE DEF i, s
<1>3. /\ \A F : f \in F => Touches(ns, s, i, F)
      /\ s.links[i][f] = v /\ v # ns.links[i][f]
  BY <1>1, <1>2, OneFieldChanges
<1> QED
  BY <1>3 DEF Varies, i, s

LEMMA SettingsVary ==
  ASSUME NEW ns, Formed(ns), NEW c \in Changes(ns)
  PROVE  LET l == ns.links[c.at] IN
         /\ c.do = "mtu" => Varies(ns, c, "mtu", c.to)
         /\ c.do = "mac" => Varies(ns, c, "mac", c.to)
         /\ c.do = "qdisc" => Varies(ns, c, "qdisc", c.to)
         /\ c.do = "alias" => Varies(ns, c, "alias", c.to)
         /\ c.do = "options" => Varies(ns, c, "qdisc", [l.qdisc EXCEPT !.limit = c.to])
<1>1. {"mtu", "mac", "qdisc", "alias"} \subseteq LinkFields
  BY DEF LinkFields
<1>2. CASE c.do = "mtu"
  <2>1. Changed(ns, c) = [ns EXCEPT !.links[c.at] = [ns.links[c.at] EXCEPT !["mtu"] = c.to]]
    BY <1>2 DEF Changed
  <2>2. Varies(ns, c, "mtu", c.to)
    BY <1>1, <1>2, <2>1, FieldVaries DEF OfPolicy
  <2> QED
    BY <1>2, <2>2
<1>3. CASE c.do = "mac"
  <2>1. Changed(ns, c) = [ns EXCEPT !.links[c.at] = [ns.links[c.at] EXCEPT !["mac"] = c.to]]
    BY <1>3 DEF Changed
  <2>2. Varies(ns, c, "mac", c.to)
    BY <1>1, <1>3, <2>1, FieldVaries DEF OfPolicy
  <2> QED
    BY <1>3, <2>2
<1>4. CASE c.do = "qdisc"
  <2>1. Changed(ns, c) = [ns EXCEPT !.links[c.at] = [ns.links[c.at] EXCEPT !["qdisc"] = c.to]]
    BY <1>4 DEF Changed
  <2>2. Varies(ns, c, "qdisc", c.to)
    BY <1>1, <1>4, <2>1, FieldVaries DEF OfPolicy
  <2> QED
    BY <1>4, <2>2
<1>5. CASE c.do = "alias"
  <2>1. Changed(ns, c) = [ns EXCEPT !.links[c.at] = [ns.links[c.at] EXCEPT !["alias"] = c.to]]
    BY <1>5 DEF Changed
  <2>2. Varies(ns, c, "alias", c.to)
    BY <1>1, <1>5, <2>1, FieldVaries DEF OfPolicy
  <2> QED
    BY <1>5, <2>2
<1>6. CASE c.do = "options"
  <2> DEFINE q == [ns.links[c.at].qdisc EXCEPT !.limit = c.to]
  <2>1. Changed(ns, c) = [ns EXCEPT !.links[c.at] = [ns.links[c.at] EXCEPT !["qdisc"] = q]]
    BY <1>6 DEF Changed
  <2> HIDE DEF q
  <2>2. Varies(ns, c, "qdisc", q)
    BY <1>1, <1>6, <2>1, FieldVaries DEF OfPolicy
  <2> QED
    BY <1>6, <2>2 DEF q
<1> QED
  BY <1>2, <1>3, <1>4, <1>5, <1>6

LEMMA SetsVary ==
  ASSUME NEW ns, Formed(ns), NEW c \in Changes(ns)
  PROVE  LET l == ns.links[c.at] IN
         /\ c.do = "address" => Varies(ns, c, "addrs", l.addrs \cup {c.to})
         /\ c.do = "unaddress" => Varies(ns, c, "addrs", l.addrs \ {c.to})
         /\ c.do = "vlan" => Varies(ns, c, "vlans", {v \in l.vlans : v.vid # c.to.vid} \cup {c.to})
         /\ c.do = "unvlan" => Varies(ns, c, "vlans", {v \in l.vlans : v.vid # c.to})
         /\ c.do = "flag" => Varies(ns, c, "port", [l.port EXCEPT ![c.to[1]] = c.to[2]])
<1>1. {"addrs", "vlans", "port"} \subseteq LinkFields
  BY DEF LinkFields
<1>2. CASE c.do = "address"
  <2> DEFINE A == ns.links[c.at].addrs \cup {c.to}
  <2>1. Changed(ns, c) = [ns EXCEPT !.links[c.at] = [ns.links[c.at] EXCEPT !["addrs"] = A]]
    BY <1>2 DEF Changed
  <2> HIDE DEF A
  <2>2. Varies(ns, c, "addrs", A)
    BY <1>1, <1>2, <2>1, FieldVaries DEF OfPolicy
  <2> QED
    BY <1>2, <2>2 DEF A
<1>3. CASE c.do = "unaddress"
  <2> DEFINE A == ns.links[c.at].addrs \ {c.to}
  <2>1. Changed(ns, c) = [ns EXCEPT !.links[c.at] = [ns.links[c.at] EXCEPT !["addrs"] = A]]
    BY <1>3 DEF Changed
  <2> HIDE DEF A
  <2>2. Varies(ns, c, "addrs", A)
    BY <1>1, <1>3, <2>1, FieldVaries DEF OfPolicy
  <2> QED
    BY <1>3, <2>2 DEF A
<1>4. CASE c.do = "vlan"
  <2> DEFINE V == {v \in ns.links[c.at].vlans : v.vid # c.to.vid} \cup {c.to}
  <2>1. Changed(ns, c) = [ns EXCEPT !.links[c.at] = [ns.links[c.at] EXCEPT !["vlans"] = V]]
    BY <1>4 DEF Changed
  <2> HIDE DEF V
  <2>2. Varies(ns, c, "vlans", V)
    BY <1>1, <1>4, <2>1, FieldVaries DEF OfPolicy
  <2> QED
    BY <1>4, <2>2 DEF V
<1>5. CASE c.do = "unvlan"
  <2> DEFINE V == {v \in ns.links[c.at].vlans : v.vid # c.to}
  <2>1. Changed(ns, c) = [ns EXCEPT !.links[c.at] = [ns.links[c.at] EXCEPT !["vlans"] = V]]
    BY <1>5 DEF Changed
  <2> HIDE DEF V
  <2>2. Varies(ns, c, "vlans", V)
    BY <1>1, <1>5, <2>1, FieldVaries DEF OfPolicy
  <2> QED
    BY <1>5, <2>2 DEF V
<1>6. CASE c.do = "flag"
  <2> DEFINE P == [ns.links[c.at].port EXCEPT ![c.to[1]] = c.to[2]]
  <2>1. Changed(ns, c) = [ns EXCEPT !.links[c.at] = [ns.links[c.at] EXCEPT !["port"] = P]]
    BY <1>6 DEF Changed
  <2> HIDE DEF P
  <2>2. Varies(ns, c, "port", P)
    BY <1>1, <1>6, <2>1, FieldVaries DEF OfPolicy
  <2> QED
    BY <1>6, <2>2 DEF P
<1> QED
  BY <1>2, <1>3, <1>4, <1>5, <1>6

(* The other changes.                                                       *)
LEMMA ReleaseIs ==
  ASSUME NEW ns, Formed(ns), NEW c \in Changes(ns), c.do = "release"
  PROVE  LET s == Changed(ns, c) IN
         /\ Touches(ns, s, c.at, {"master", "port", "vlans"})
         /\ s.links[c.at].master = None /\ s.links[c.at].vlans = {}
         /\ ns.links[c.at].master # None
<1> DEFINE i == c.at
           l == ns.links[i]
           m == [l EXCEPT !.master = None, !.port = NoPort, !.vlans = {}]
           s == Changed(ns, c)
           F == {"master", "port", "vlans"}
<1>1. i \in DOMAIN ns.links /\ l.master # None
  BY ChangesAre DEF Changes, OfPolicy
<1>2. IsLink(l)
  BY <1>1 DEF Formed
<1>3. m.master = None /\ m.vlans = {} /\ \A g \in LinkFields \ F : m[g] = l[g]
  BY <1>2 DEF IsLink, LinkFields
<1>4. s = [ns EXCEPT !.links[i] = m]
  BY DEF Changed
<1> HIDE DEF m, s, F
<1>5. s.links = [ns.links EXCEPT ![i] = m]
  BY <1>4 DEF Formed, NsFields
<1>6. s.links[i] = m
  BY <1>1, <1>5
<1>7. /\ DOMAIN s.links = DOMAIN ns.links
      /\ \A j \in DOMAIN ns.links : j # i => s.links[j] = ns.links[j]
      /\ s.routes = ns.routes /\ s.rules = ns.rules /\ s.neighbors = ns.neighbors
      /\ s.sysctls = ns.sysctls
  BY <1>1, <1>4, OneLinkChanges
<1>8. \A g \in LinkFields \ F : s.links[i][g] = ns.links[i][g]
  BY <1>3, <1>6
<1>9. Touches(ns, s, i, F)
  BY <1>7, <1>8 DEF Touches
<1> QED
  BY <1>1, <1>3, <1>6, <1>9 DEF s, F

LEMMA DownIs ==
  ASSUME NEW ns, Formed(ns), NEW c \in Changes(ns), c.do = "down"
  PROVE  LET s == Changed(ns, c) IN
         /\ DOMAIN s.links = DOMAIN ns.links
         /\ \A j \in DOMAIN s.links : \A f \in LinkFields \ {"up", "addrs"} : s.links[j][f] = ns.links[j][f]
         /\ s.links[c.at].up = FALSE
<1> DEFINE i == c.at
           down == {i} \cup VlansOn(ns, i)
           Link(j) == IF j \notin down THEN ns.links[j]
                      ELSE [ns.links[j] EXCEPT !.up = FALSE, !.addrs = {a \in @ : a.v = 4}]
           routes == {r \in ns.routes : RouteDevices(r) \cap down = {}}
           s == [ns EXCEPT !.links = [j \in DOMAIN @ |-> Link(j)], !.routes = routes]
<1>1. i \in DOMAIN ns.links /\ Changed(ns, c) # ns
  BY ChangesAre DEF OfPolicy
<1>2. Changed(ns, c) = Request(ns, None, s)
  BY DEF Changed, SetDown
<1>3. Changed(ns, c) = s
  BY <1>1, <1>2 DEF Request
<1>4. i \in down
  OBVIOUS
<1> HIDE DEF down, routes
<1>5. \A j \in DOMAIN ns.links : \A f \in LinkFields \ {"up", "addrs"} : Link(j)[f] = ns.links[j][f]
  <2> SUFFICES ASSUME NEW j \in DOMAIN ns.links, NEW f \in LinkFields \ {"up", "addrs"}
               PROVE  Link(j)[f] = ns.links[j][f]
    OBVIOUS
  <2>1. IsLink(ns.links[j])
    BY DEF Formed
  <2> QED
    BY <2>1 DEF IsLink
<1>6. Link(i).up = FALSE
  <2>1. IsLink(ns.links[i])
    BY <1>1 DEF Formed
  <2> QED
    BY <1>4, <2>1 DEF IsLink, LinkFields
<1> HIDE DEF Link
<1>7. s.links = [j \in DOMAIN ns.links |-> Link(j)]
  BY DEF Formed, NsFields
<1> HIDE DEF s
<1>8. DOMAIN s.links = DOMAIN ns.links /\ \A j \in DOMAIN ns.links : s.links[j] = Link(j)
  BY <1>7
<1> QED
  BY <1>1, <1>3, <1>5, <1>6, <1>8

LEMMA DeleteIs ==
  ASSUME NEW ns, Formed(ns), NEW c \in Changes(ns), c.do = "delete"
  PROVE  LET s == Changed(ns, c) IN
         /\ DOMAIN s.links = (DOMAIN ns.links) \ {c.at}
         /\ \A j \in DOMAIN s.links : s.links[j] = ns.links[j]
         /\ ns.links[c.at].kind = "dummy"
<1> DEFINE s == Changed(ns, c)
           gone == Without(ns.links, {c.at})
<1>1. s = [ns EXCEPT !.links = gone]
  BY DEF Changed
<1>2. DOMAIN gone = (DOMAIN ns.links) \ {c.at} /\ \A j \in DOMAIN gone : gone[j] = ns.links[j]
  BY DEF Without
<1> HIDE DEF s, gone
<1>3. s.links = gone
  BY <1>1 DEF Formed, NsFields
<1>4. ns.links[c.at].kind = "dummy"
  BY DEF Changes
<1> QED
  BY <1>2, <1>3, <1>4 DEF s

(* Changes to what is not a link.                                           *)
Keeps(ns, s, parts) ==
  /\ s.links = ns.links
  /\ \A f \in {"routes", "rules", "neighbors", "sysctls"} \ parts : s[f] = ns[f]

LEMMA PolicyIs ==
  ASSUME NEW ns, Formed(ns), NEW c \in Changes(ns), c.do \in OfPolicy
  PROVE  LET s == Changed(ns, c) IN
         /\ c.do = "unroute" => Keeps(ns, s, {"routes"}) /\ s.routes = ns.routes \ {c.at}
         /\ c.do = "route" => Keeps(ns, s, {"routes"}) /\ s.routes = ns.routes \cup {c.at}
         /\ c.do = "unrule" => Keeps(ns, s, {"rules"}) /\ s.rules = ns.rules \ {c.at}
         /\ c.do = "forget" => Keeps(ns, s, {"neighbors"}) /\ s.neighbors = ns.neighbors \ {c.at}
         /\ c.do = "age" => /\ Keeps(ns, s, {"neighbors"})
                            /\ s.neighbors = (ns.neighbors \ {c.at}) \cup {[c.at EXCEPT !.state = c.to]}
         /\ c.do = "sysctl" => Keeps(ns, s, {"sysctls"}) /\ s.sysctls = [ns.sysctls EXCEPT ![c.at] = c.to]
<1>1. NsFields \subseteq DOMAIN ns
  BY DEF Formed
<1>2. CASE c.do = "unroute"
  BY <1>1, <1>2 DEF Changed, Keeps, NsFields
<1>3. CASE c.do = "route"
  BY <1>1, <1>3 DEF Changed, Keeps, NsFields
<1>4. CASE c.do = "unrule"
  BY <1>1, <1>4 DEF Changed, Keeps, NsFields
<1>5. CASE c.do = "forget"
  BY <1>1, <1>5 DEF Changed, Keeps, NsFields
<1>6. CASE c.do = "age"
  <2> DEFINE b == [c.at EXCEPT !.state = c.to]
  <2>1. Changed(ns, c) = [ns EXCEPT !.neighbors = (ns.neighbors \ {c.at}) \cup {b}]
    BY <1>6 DEF Changed
  <2> HIDE DEF b
  <2>2. Keeps(ns, Changed(ns, c), {"neighbors"}) /\ Changed(ns, c).neighbors = (ns.neighbors \ {c.at}) \cup {b}
    BY <1>1, <2>1 DEF Keeps, NsFields
  <2> QED
    BY <1>6, <2>2 DEF b
<1>7. CASE c.do = "sysctl"
  BY <1>1, <1>7 DEF Changed, Keeps, NsFields
<1> QED
  BY <1>2, <1>3, <1>4, <1>5, <1>6, <1>7

(* Whatever the change, the texts of inspect still tell what they told.     *)
LEMMA TouchedRemains ==
  ASSUME NEW ns, \A j \in DOMAIN ns.links : Tidy(ns.links[j].vlans), NEW s, NEW i, NEW F, Touches(ns, s, i, F),
         "kind" \notin F, "data" \notin F,
         "qdisc" \in F => s.links[i].qdisc = None,
         "vlans" \in F => Tidy(s.links[i].vlans)
  PROVE  Remains(ns, s)
<1>1. ASSUME NEW j \in DOMAIN ns.links
      PROVE  /\ s.links[j].kind = ns.links[j].kind /\ s.links[j].data = ns.links[j].data
             /\ s.links[j].qdisc \in {None, ns.links[j].qdisc} /\ Tidy(s.links[j].vlans)
  <2>1. CASE j # i
    <3>1. s.links[j] = ns.links[j]
      BY <2>1 DEF Touches
    <3> QED
      BY <3>1
  <2>2. CASE j = i
    <3>1. {"kind", "data", "qdisc", "vlans"} \subseteq LinkFields
      BY DEF LinkFields
    <3>2. /\ s.links[i]["kind"] = ns.links[i]["kind"] /\ s.links[i]["data"] = ns.links[i]["data"]
          /\ "qdisc" \notin F => s.links[i]["qdisc"] = ns.links[i]["qdisc"]
          /\ "vlans" \notin F => s.links[i]["vlans"] = ns.links[i]["vlans"]
      BY <3>1 DEF Touches
    <3> QED
      BY <2>2, <3>2
  <2> QED
    BY <2>1, <2>2
<1> QED
  BY <1>1 DEF Remains, Touches

LEMMA MoreIsTidy ==
  ASSUME NEW V, Tidy(V), NEW tag, tag.vid \in Int
  PROVE  Tidy({v \in V : v.vid # tag.vid} \cup {tag})
<1> DEFINE W == {v \in V : v.vid # tag.vid}
<1>1. Tidy(W) /\ \A v \in W : v.vid # tag.vid
  BY SmallerIsTidy
<1> HIDE DEF W
<1>2. IsFiniteSet(W \cup {tag})
  BY <1>1, FS_AddElement DEF Tidy
<1>3. Tidy(W \cup {tag})
  BY <1>1, <1>2 DEF Tidy
<1> QED
  BY <1>3 DEF W

LEMMA ChangeRemains ==
  ASSUME NEW ns, Formed(ns), \A j \in DOMAIN ns.links : Tidy(ns.links[j].vlans),
         NEW c \in Changes(ns), c.do # "options"
  PROVE  Remains(ns, Changed(ns, c))
<1> DEFINE s == Changed(ns, c)
           i == c.at
<1>0. \A k \in DOMAIN ns.links : Tidy(ns.links[k].vlans)
  OBVIOUS
<1>1. ASSUME NEW f \in {"mtu", "mac", "alias", "addrs", "port"}, Touches(ns, s, i, {f}) PROVE Remains(ns, s)
  BY <1>1, TouchedRemains
<1>2. CASE c.do \in {"mtu", "mac", "alias", "address", "unaddress", "flag"}
  BY <1>1, <1>2, SettingsVary, SetsVary DEF Varies
<1>3. CASE c.do = "qdisc"
  <2>1. c.to = None
    <3>1. c \in VethChanges(ns)
      BY <1>3, ChangesAre, LinkChangesAre, PortChangesAre, PolicyChangesAre DEF OfLinks, OfPorts, OfPolicy
    <3> QED
      BY <1>3, <3>1, VethChangesAre
  <2>2. Touches(ns, s, i, {"qdisc"}) /\ s.links[i].qdisc = None
    BY <1>3, <2>1, SettingsVary DEF Varies
  <2> QED
    BY <2>2, TouchedRemains
<1>4. CASE c.do = "vlan"
  <2> DEFINE V == ns.links[i].vlans
             tag == c.to
             W == {v \in V : v.vid # tag.vid} \cup {tag}
  <2>1. c \in PortChanges(ns)
    BY <1>4, ChangesAre, LinkChangesAre, VethChangesAre, PolicyChangesAre DEF OfLinks, OfVeths, OfPolicy
  <2>2. tag.vid \in Int /\ i \in DOMAIN ns.links
    BY <1>4, <2>1, PortChangesAre
  <2>3. Touches(ns, s, i, {"vlans"}) /\ s.links[i].vlans = W
    BY ZenonT(40), <1>4, SetsVary DEF Varies
  <2>4. Tidy(V)
    BY <2>2
  <2> HIDE DEF V, tag
  <2>5. Tidy(W)
    BY <2>2, <2>4, MoreIsTidy
  <2> HIDE DEF W
  <2> QED
    BY <2>3, <2>5, TouchedRemains
<1>5. CASE c.do = "unvlan"
  <2> DEFINE V == ns.links[i].vlans
             W == {v \in V : v.vid # c.to}
  <2>1. Tidy(V)
    BY <1>5, ChangesAre DEF OfPolicy
  <2>2. Touches(ns, s, i, {"vlans"}) /\ s.links[i].vlans = W
    BY ZenonT(40), <1>5, SetsVary DEF Varies
  <2> HIDE DEF V
  <2>3. Tidy(W)
    BY <2>1, SmallerIsTidy
  <2> HIDE DEF W
  <2> QED
    BY <2>2, <2>3, TouchedRemains
<1>6. CASE c.do = "release"
  <2>1. Tidy({})
    BY NothingInOrder
  <2>2. Touches(ns, s, i, {"master", "port", "vlans"}) /\ s.links[i].vlans = {}
    BY <1>6, ReleaseIs
  <2> QED
    BY <2>1, <2>2, TouchedRemains
<1>7. CASE c.do = "down"
  <2>1. /\ DOMAIN s.links = DOMAIN ns.links
        /\ \A j \in DOMAIN s.links : \A f \in LinkFields \ {"up", "addrs"} : s.links[j][f] = ns.links[j][f]
    BY <1>7, DownIs
  <2>2. {"kind", "data", "qdisc", "vlans"} \subseteq LinkFields \ {"up", "addrs"}
    BY DEF LinkFields
  <2>3. \A j \in DOMAIN s.links :
          /\ s.links[j]["kind"] = ns.links[j]["kind"] /\ s.links[j]["data"] = ns.links[j]["data"]
          /\ s.links[j]["qdisc"] = ns.links[j]["qdisc"] /\ s.links[j]["vlans"] = ns.links[j]["vlans"]
    BY <2>1, <2>2
  <2> HIDE DEF s
  <2>4. Remains(ns, s)
    BY <1>0, <2>1, <2>3 DEF Remains
  <2> QED
    BY <2>4 DEF s
<1>8. CASE c.do = "delete"
  <2>1. DOMAIN s.links \subseteq DOMAIN ns.links /\ \A j \in DOMAIN s.links : s.links[j] = ns.links[j]
    BY <1>8, DeleteIs
  <2> HIDE DEF s
  <2>2. Remains(ns, s)
    BY <1>0, <2>1 DEF Remains
  <2> QED
    BY <2>2 DEF s
<1>9. CASE c.do \in OfPolicy
  <2>1. s.links = ns.links
    BY <1>9, PolicyIs DEF OfPolicy, Keeps
  <2> HIDE DEF s
  <2>2. Remains(ns, s)
    BY <1>0, <2>1 DEF Remains
  <2> QED
    BY <2>2 DEF s
<1> QED
  BY <1>2, <1>3, <1>4, <1>5, <1>6, <1>7, <1>8, <1>9, ChangesAre DEF OfLinks, OfPorts, OfVeths

(* The texts of what is there can be told apart, and nothing is rounded     *)
(* unless the manifest asks for what is.                                    *)
Judged ==
  /\ AllLegible(plan, inventory) /\ Apart(plan, inventory)
  /\ ~Rounded(manifest) => Exact(plan, inventory)

(* Only a topology that was verified is recorded as deployed, and of one    *)
(* that somebody changed the texts still tell what they told.               *)
Told ==
  /\ pc \notin {"deployed", "drifted"} => recorded.status # "deployed"
  /\ pc = "drifted" /\ ~Reshaped => Judged

LEMMA DeployedIsJudged ==
  ASSUME Builds, Known1, pc = "deployed"
  PROVE  Judged
<1>1. DOMAIN space = Nodes /\ \A n \in Nodes : Settled(plan, n, space[n])
  BY DEF Builds
<1>2. ASSUME NEW n \in DOMAIN space PROVE Remains(space[n], space[n])
  BY <1>1 DEF Remains, Settled, LinkOrigin
<1> QED
  BY <1>1, <1>2, ChangedIsLegible DEF Judged, inventory

LEMMA DriftRemains ==
  ASSUME Builds, pc = "deployed", Drift, drift'.change.do # "options"
  PROVE  DOMAIN space' \subseteq Nodes /\ \A n \in DOMAIN space' : Remains(space[n], space'[n])
<1>1. DOMAIN space = Nodes /\ \A n \in Nodes : Settled(plan, n, space[n])
  BY DEF Builds
<1>0. PICK n \in Nodes : \E c \in Changes(space[n]) :
        /\ space' = [space EXCEPT ![n] = Changed(@, c)]
        /\ drift' = [node |-> n, change |-> c]
  BY DEF Drift
<1>2. PICK c \in Changes(space[n]) :
        /\ space' = [space EXCEPT ![n] = Changed(@, c)]
        /\ drift' = [node |-> n, change |-> c]
  BY <1>0
<1>3. c.do # "options"
  BY <1>2
<1>4. \A k \in Nodes : Formed(space[k]) /\ \A j \in DOMAIN space[k].links : Tidy(space[k].links[j].vlans)
  BY <1>1 DEF Settled, LinkOrigin
<1>5. Remains(space[n], Changed(space[n], c))
  BY <1>3, <1>4, ChangeRemains
<1>6. \A k \in Nodes : Remains(space[k], space[k])
  BY <1>4 DEF Remains
<1> QED
  BY <1>1, <1>2, <1>5, <1>6

LEMMA FewerLinksRemain ==
  ASSUME NEW ns, Formed(ns), \A j \in DOMAIN ns.links : Tidy(ns.links[j].vlans), NEW S
  PROVE  Remains(ns, [ns EXCEPT !.links = Without(@, S)])
<1> DEFINE s == [ns EXCEPT !.links = Without(@, S)]
<1>1. s.links = Without(ns.links, S)
  BY DEF Formed, NsFields
<1>2. DOMAIN s.links \subseteq DOMAIN ns.links /\ \A j \in DOMAIN s.links : s.links[j] = ns.links[j]
  BY <1>1 DEF Without
<1>3. \A j \in DOMAIN ns.links : Tidy(ns.links[j].vlans)
  OBVIOUS
<1> HIDE DEF s
<1>4. Remains(ns, s)
  BY <1>2, <1>3 DEF Remains
<1> QED
  BY <1>4 DEF s

LEMMA LoseRemains ==
  ASSUME Builds, pc = "deployed", Lose
  PROVE  DOMAIN space' \subseteq Nodes /\ \A n \in DOMAIN space' : Remains(space[n], space'[n])
<1>1. DOMAIN space = Nodes /\ \A n \in Nodes : Settled(plan, n, space[n])
  BY DEF Builds
<1> DEFINE Gone(lost, k) ==
             LET gone == {i \in DOMAIN space[k].links :
                           \E l \in Range(plan.links) : <<k, i>> \in EndsOf(l)
                              /\ \E e \in EndsOf(l) : e[1] \in lost} IN
             gone \cup UNION {On(space[k], i) : i \in gone}
<1>2. \E lost \in SUBSET Nodes :
        space' = [k \in Nodes \ lost |-> [space[k] EXCEPT !.links = Without(@, Gone(lost, k))]]
  BY DEF Lose
<1> HIDE DEF Gone
<1>3. PICK lost \in SUBSET Nodes :
        space' = [k \in Nodes \ lost |-> [space[k] EXCEPT !.links = Without(@, Gone(lost, k))]]
  BY <1>2
<1>4. \A k \in Nodes : Formed(space[k]) /\ \A j \in DOMAIN space[k].links : Tidy(space[k].links[j].vlans)
  BY <1>1 DEF Settled, LinkOrigin
<1>5. ASSUME NEW n \in DOMAIN space' PROVE Remains(space[n], space'[n])
  <2>1. n \in Nodes /\ space'[n] = [space[n] EXCEPT !.links = Without(@, Gone(lost, n))]
    BY <1>3
  <2> QED
    BY <1>4, <2>1, FewerLinksRemain
<1> QED
  BY <1>3, <1>5

LEMMA ReplaceRemains ==
  ASSUME Builds, pc = "deployed", Replace
  PROVE  DOMAIN space' \subseteq Nodes /\ \A n \in DOMAIN space' : Remains(space[n], space'[n])
<1>1. DOMAIN space = Nodes /\ \A n \in Nodes : Settled(plan, n, space[n])
  BY DEF Builds
<1> DEFINE Link(k, n, i) == IF <<n, i>> \in EndsOf(plan.links[k]) THEN [space[n].links[i] EXCEPT !.alias = 0]
                            ELSE space[n].links[i]
<1>2. PICK k \in DOMAIN plan.links :
        space' = [n \in Nodes |-> [space[n] EXCEPT !.links = [i \in DOMAIN @ |-> Link(k, n, i)]]]
  BY DEF Replace
<1>3. ASSUME NEW n \in Nodes, NEW i \in DOMAIN space[n].links
      PROVE  \A f \in LinkFields \ {"alias"} : Link(k, n, i)[f] = space[n].links[i][f]
  <2>1. IsLink(space[n].links[i])
    BY <1>1 DEF Settled, Formed
  <2> QED
    BY <2>1 DEF IsLink
<1>4. ASSUME NEW n \in Nodes, NEW i \in DOMAIN space[n].links PROVE Tidy(space[n].links[i].vlans)
  BY <1>1 DEF Settled, LinkOrigin
<1> HIDE DEF Link
<1>5. ASSUME NEW n \in Nodes PROVE Remains(space[n], space'[n])
  <2> DEFINE s == space'[n]
  <2>1. s.links = [i \in DOMAIN space[n].links |-> Link(k, n, i)]
    BY <1>1, <1>2 DEF Settled, Formed, NsFields
  <2> HIDE DEF s
  <2>2. \A i \in DOMAIN s.links : i \in DOMAIN space[n].links /\ s.links[i] = Link(k, n, i)
    BY <2>1
  <2>3. DOMAIN s.links \subseteq DOMAIN space[n].links
    BY <2>1
  <2>4. ASSUME NEW i \in DOMAIN s.links
        PROVE  /\ s.links[i].kind = space[n].links[i].kind /\ s.links[i].data = space[n].links[i].data
               /\ s.links[i].qdisc = space[n].links[i].qdisc /\ Tidy(s.links[i].vlans)
    <3>1. {"kind", "data", "qdisc", "vlans"} \subseteq LinkFields \ {"alias"}
      BY DEF LinkFields
    <3>2. /\ s.links[i]["kind"] = space[n].links[i]["kind"] /\ s.links[i]["data"] = space[n].links[i]["data"]
          /\ s.links[i]["qdisc"] = space[n].links[i]["qdisc"] /\ s.links[i]["vlans"] = space[n].links[i]["vlans"]
      BY <1>3, <2>2, <3>1
    <3>3. Tidy(space[n].links[i].vlans)
      BY <1>4, <2>2
    <3> QED
      BY <3>2, <3>3
  <2>5. Remains(space[n], s)
    BY <2>3, <2>4 DEF Remains
  <2> QED
    BY <2>5 DEF s
<1> QED
  BY <1>2, <1>5

LEMMA StrandRemains ==
  ASSUME Builds, pc = "deployed", Strand
  PROVE  DOMAIN space' \subseteq Nodes /\ \A n \in DOMAIN space' : Remains(space[n], space'[n])
<1>1. DOMAIN space = Nodes /\ \A n \in Nodes : Settled(plan, n, space[n])
  BY DEF Builds
<1>2. space' = space
  BY DEF Strand
<1> QED
  BY <1>1, <1>2 DEF Remains, Settled, LinkOrigin

LEMMA NextTold ==
  ASSUME Builds, Known1, Told, [Next]_vars
  PROVE  Told'
<1>1. CASE UNCHANGED vars
  BY <1>1 DEF vars, Told, Judged, Reshaped, plan, inventory
<1>2. CASE Drift \/ Lose \/ Replace \/ Strand
  <2>1. pc = "deployed" /\ pc' = "drifted"
    BY <1>2 DEF Drift, Lose, Replace, Strand
  <2>2. manifest' = manifest /\ plan' = plan /\ Nodes' = Nodes
    BY PlanKept
  <2>3. ASSUME ~Reshaped'
        PROVE  DOMAIN space' \subseteq Nodes /\ \A n \in DOMAIN space' : Remains(space[n], space'[n])
    BY <1>2, <2>1, <2>3, DriftRemains, LoseRemains, ReplaceRemains, StrandRemains DEF Reshaped
  <2>4. inventory' = Inventory(plan, space', root')
    BY <2>2 DEF inventory
  <2>5. ASSUME ~Reshaped' PROVE Judged'
    BY <2>1, <2>2, <2>3, <2>4, <2>5, ChangedIsLegible DEF Judged
  <2> QED
    BY <2>1, <2>5 DEF Told
<1>3. CASE Refuse \/ Accept \/ Crash
  BY <1>3 DEF Refuse, Accept, Crash, Told
<1>4. CASE Compile
  BY <1>4 DEF Compile, Told, SnapshotFor
<1>5. CASE CreateNamespaces \/ CreateBridges \/ CreatePairs
  BY <1>5 DEF CreateNamespaces, CreateBridges, CreatePairs, Step, Told
<1>6. CASE Proceed
  BY <1>6 DEF Proceed, Steps, Told
<1>7. CASE StartNode
  BY <1>7 DEF StartNode, Blocks, Told
<1>8. CASE Configure
  <2>1. pc \in Range(Blocks) /\ recorded' = recorded /\ pc' \in {"failed", After(pc)}
    BY <1>8 DEF Configure
  <2>2. pc \notin {"deployed", "drifted"} /\ After(pc) \notin {"deployed", "drifted"}
    BY <2>1, StageNames, AfterABlock
  <2> QED
    BY <2>1, <2>2 DEF Told
<1>9. CASE StartRouting
  BY <1>9 DEF StartRouting, Told
<1>10. CASE Verify
  BY <1>10 DEF Verify, Told
<1> QED
  BY <1>1, <1>2, <1>3, <1>4, <1>5, <1>6, <1>7, <1>8, <1>9, <1>10 DEF Next, Finished

(* The placeholder is none of the differences there are.                    *)
LEMMA PlaceholderIsNoDifference ==
  ASSUME NEW p, NEW inv, NEW snapshot, None \notin DOMAIN p.nodes
  PROVE  NodeDifference(None, "inventory.match") \notin
           LiveDifferences(p, inv) \cup StateDifferences(p, inv, snapshot)
<1> DEFINE x == NodeDifference(None, "inventory.match")
<1>1. x.node = None /\ x.property = "inventory.match"
  BY DEF NodeDifference
<1>2. \A n, i, f : /\ InterfaceDifference(n, i, f).node = n /\ InterfaceDifference(n, i, f).property = f
                   /\ NodeDifference(n, f).node = n /\ NodeDifference(n, f).property = f
  BY DEF NodeDifference, InterfaceDifference
<1> HIDE DEF x
<1>3. ASSUME NEW n \in DOMAIN p.nodes PROVE x \notin NodeDifferences(p, n, inv.namespaces[n])
  <2>1. n # None
    OBVIOUS
  <2>2. \A d \in InterfaceDifferences(p, n, inv.namespaces[n].interfaces) : d.node = n
    BY <1>2 DEF InterfaceDifferences
  <2> QED
    BY <1>1, <1>2, <2>1, <2>2 DEF NodeDifferences
<1>4. x \notin LiveDifferences(p, inv)
  BY <1>1, <1>2, <1>3 DEF LiveDifferences
<1>5. x \notin StateDifferences(p, inv, snapshot)
  BY <1>1, <1>2 DEF StateDifferences
<1> QED
  BY <1>4, <1>5 DEF x

-----------------------------------------------------------------------------
(* What tells the parts of a plan from one another, and from what somebody  *)
(* may put beside them.                                                     *)

Distinct(p, n) ==
  LET node == p.nodes[n] IN
  /\ \A d \in DOMAIN node.devices :
       node.devices[d].type \notin {"vlan", "vrf"} => DeviceMtu(p, n, d) # None
  /\ None \notin DOMAIN node.devices
  /\ \A i \in DOMAIN node.macs : node.macs[i] # None
  /\ \A r \in Range(node.routes) :
       /\ r.nexthops = <<>> => r.dev # "lo"
       /\ \A i \in Interfaces(node) : \A a \in AddressesOf(node, i) :
            r.table = VrfTable(node, i) => r.dst # Net(a)
  /\ \A b, c \in node.neighbors : Identity(b) = Identity(c) => b = c
  /\ \A b \in node.neighbors : {"dst", "dev", "lladdr", "state", "proxy"} \subseteq DOMAIN b
  /\ \A i, f : f \in VrfOf(node, i) =>
       BondOf(node, i) = {} /\ VrfOf(node, i) = {f} /\ i \notin OfType(node, "vrf")
  /\ node.kind = "bridge" => \A d \in DOMAIN node.devices : node.devices[d].type \in {"vxlan", "geneve"}

(* The width of a link, and of a device that has one of its own.            *)
LEMMA LinkWidths ==
  ASSUME NEW m, IsManifest(m), Accepted(m), NEW n, NEW i \in Linked(m.links, n)
  PROVE  MtuAt(m.links, n, i) \in Int
<1>1. PICK k \in DOMAIN m.links : LinksAt(m.links, n, i) = {k}
  BY EndsAreLinked
<1>2. MtuAt(m.links, n, i) = m.links[k].mtu
  BY <1>1 DEF MtuAt
<1>3. m.links[k].mtu \in MinMtu .. 9216
  BY DEF Accepted, ValidLinks, ValidLink
<1> QED
  BY <1>2, <1>3, WidthsAreNumbers

LEMMA DeviceWidths ==
  ASSUME NEW m, IsManifest(m), Accepted(m), NEW n \in DOMAIN m.nodes,
         NEW d \in DOMAIN m.nodes[n].devices, m.nodes[n].devices[d].type \notin {"vlan", "vrf"}
  PROVE  DeviceMtu(Plan(m), n, d) # None
<1> DEFINE p == Plan(m)
           node == m.nodes[n]
           dev == node.devices[d]
           made == CompileDevice(dev)
<1>1. /\ p.links = m.links /\ p.nodes[n].devices[d] = made
      /\ IsDevice(dev) /\ ValidReferences(m, n) /\ ValidDevice(dev)
  <2>1. IsNode(node) /\ ValidNode(node) /\ ValidReferences(m, n)
    BY DEF IsManifest, Accepted
  <2>2. CompileNode(node).devices[d] = made
    BY <2>1, CompiledNode
  <2>3. p.links = m.links /\ p.nodes[n] = CompileNode(node)
    BY DEF Plan
  <2> QED
    BY <2>1, <2>2, <2>3 DEF IsNode, ValidNode
<1>2. /\ made.type = dev.type /\ dev.type \in DeviceTypes
      /\ dev.type = "bond" => made.interfaces = dev.interfaces
      /\ dev.type # "bond" => made = dev
  BY <1>1, CompiledDevice DEF IsDevice
<1> HIDE DEF p, made
<1>3. CASE dev.type = "bond"
  <2>1. dev.interfaces \in Seq(Range(dev.interfaces)) /\ Len(dev.interfaces) >= 2
    BY <1>1, <1>3 DEF IsDevice, IsSequence, ValidDevice, ValidBond
  <2>2. dev.interfaces[1] \in Range(dev.interfaces)
    BY <2>1 DEF Range
  <2>3. dev.interfaces[1] \in Linked(m.links, n)
    BY <1>1, <1>3, <2>2 DEF ValidReferences, BondFits
  <2>4. DeviceMtu(p, n, d) = MtuAt(m.links, n, dev.interfaces[1])
    BY <1>1, <1>2, <1>3 DEF DeviceMtu
  <2>5. DeviceMtu(p, n, d) \in Int
    BY <2>3, <2>4, LinkWidths
  <2> QED
    BY <2>5, NoneAssumption DEF p
<1>4. CASE dev.type = "dummy"
  <2>1. DeviceMtu(p, n, d) = Default(dev.mtu, 1500)
    BY <1>1, <1>2, <1>4 DEF DeviceMtu
  <2>2. 1500 # None
    BY NoneAssumption
  <2> QED
    BY <2>1, <2>2 DEF Default, p
<1>5. CASE dev.type \in Stacked \ {"vlan"}
  <2> DEFINE room == MtuAt(m.links, n, dev.link) - Overhead(dev)
  <2>1. dev.type \notin {"vlan", "vrf", "bond", "dummy"}
    BY <1>5 DEF Stacked
  <2>2. DeviceMtu(p, n, d) = Default(dev.mtu, room)
    BY <1>1, <1>2, <2>1 DEF DeviceMtu
  <2>3. dev.link \in Linked(m.links, n)
    BY <1>1, <1>5 DEF ValidReferences, StackedFits
  <2>4. Overhead(dev) \in Int
    BY DEF Overhead
  <2>5. MtuAt(m.links, n, dev.link) \in Int
    BY <2>3, LinkWidths
  <2>6. room \in Int
    BY <2>4, <2>5
  <2>7. room # None
    BY <2>6, NoneAssumption
  <2> QED
    BY <2>2, <2>7 DEF Default, p
<1> QED
  BY <1>2, <1>3, <1>4, <1>5 DEF DeviceTypes

(* Members of VRFs and bonds are as declared.                               *)
LEMMA CompiledMembers ==
  ASSUME NEW node, IsNode(node), NEW i
  PROVE  LET c == CompileNode(node) IN
         /\ VrfOf(c, i) = VrfOf(node, i) /\ BondOf(c, i) = BondOf(node, i)
         /\ VrfTable(c, i) = VrfTable(node, i)
<1> DEFINE c == CompileNode(node)
<1>1. /\ OfType(c, "vrf") = OfType(node, "vrf") /\ OfType(c, "bond") = OfType(node, "bond")
      /\ \A d \in DOMAIN node.devices : c.devices[d] = CompileDevice(node.devices[d])
  BY CompiledNode
<1> HIDE DEF c
<1>2. \A d \in OfType(node, "vrf") \cup OfType(node, "bond") :
        c.devices[d].interfaces = node.devices[d].interfaces
  BY <1>1, CompiledDevice DEF IsNode, OfType
<1>3. \A d \in OfType(node, "vrf") : c.devices[d] = node.devices[d]
  BY <1>1, CompiledDevice DEF IsNode, OfType
<1>4. VrfOf(c, i) = VrfOf(node, i) /\ BondOf(c, i) = BondOf(node, i)
  BY <1>1, <1>2 DEF VrfOf, BondOf
<1>5. VrfTable(c, i) = VrfTable(node, i)
  <2>1. CASE VrfOf(node, i) = {}
    BY <1>4, <2>1 DEF VrfTable
  <2>2. CASE VrfOf(node, i) # {}
    <3> DEFINE f == CHOOSE g \in VrfOf(node, i) : TRUE
    <3>1. f \in OfType(node, "vrf") /\ f = CHOOSE g \in VrfOf(c, i) : TRUE
      BY <1>4, <2>2 DEF VrfOf
    <3>2. VrfTable(c, i) = c.devices[f].table /\ VrfTable(node, i) = node.devices[f].table
      BY <1>4, <2>2, <3>1 DEF VrfTable
    <3> HIDE DEF f
    <3> QED
      BY <1>3, <3>1, <3>2
  <2> QED
    BY <2>1, <2>2
<1> QED
  BY <1>4, <1>5 DEF c

(* Declared routes lead elsewhere than connected ones.                      *)
LEMMA CompiledRoutes ==
  ASSUME NEW node, IsNode(node), RoutesByTable(node)
  PROVE  \A r \in Range(CompileNode(node).routes) :
           /\ \E q \in Range(node.routes) : r.dev = q.dev /\ r.nexthops = q.nexthops
           /\ \A i \in Interfaces(node) : \A a \in AddressesOf(node, i) :
                r.table = VrfTable(node, i) => r.dst # Net(a)
<1> DEFINE routes == node.routes
           connected == UNION {{<<VrfTable(node, i), Net(a)>> : a \in AddressesOf(node, i)} :
                          i \in DOMAIN node.interfaces \cup Addressed(node)}
<1>1. CompileNode(node).routes = [k \in DOMAIN routes |-> CompileRoute(node, routes[k])]
  BY DEF CompileNode
<1>2. SUFFICES ASSUME NEW k \in DOMAIN routes
      PROVE  LET r == CompileRoute(node, routes[k]) IN
             /\ \E q \in Range(node.routes) : r.dev = q.dev /\ r.nexthops = q.nexthops
             /\ \A i \in Interfaces(node) : \A a \in AddressesOf(node, i) :
                  r.table = VrfTable(node, i) => r.dst # Net(a)
  BY <1>1 DEF Range
<1> DEFINE q == routes[k]
           r == CompileRoute(node, q)
<1>3. q \in Range(node.routes)
  BY DEF Range
<1>4. {"dst", "via", "dev", "nexthops", "table"} \subseteq DOMAIN q
  BY <1>3 DEF IsNode
<1>5. r.table = RouteTable(node, q) /\ r.dst = q.dst /\ r.dev = q.dev /\ r.nexthops = q.nexthops
  BY <1>4 DEF CompileRoute
<1>6. <<RouteTable(node, q), q.dst>> \notin connected
  BY DEF RoutesByTable
<1>7. ASSUME NEW i \in Interfaces(node), NEW a \in AddressesOf(node, i)
      PROVE  <<VrfTable(node, i), Net(a)>> \in connected
  BY <1>7 DEF Interfaces
<1> HIDE DEF connected, q, r
<1>8. \A i \in Interfaces(node) : \A a \in AddressesOf(node, i) :
        r.table = VrfTable(node, i) => r.dst # Net(a)
  BY <1>5, <1>6, <1>7
<1> QED
  BY <1>3, <1>5, <1>8 DEF r, q

(* Neighbors are told apart by what identifies them.                        *)
LEMMA CompiledNeighbors ==
  ASSUME NEW node, IsNode(node), ValidNode(node)
  PROVE  /\ \A b, c \in CompileNode(node).neighbors : Identity(b) = Identity(c) => b = c
         /\ \A b \in CompileNode(node).neighbors :
              {"dst", "dev", "lladdr", "state", "proxy"} \subseteq DOMAIN b
<1>1. CompileNode(node).neighbors = {CompileNeighbor(b) : b \in node.neighbors}
  BY DEF CompileNode
<1>2. \A b \in node.neighbors : {"dst", "dev", "lladdr", "state", "proxy"} \subseteq DOMAIN b
  BY DEF IsNode
<1>3. \A b \in node.neighbors :
        /\ CompileNeighbor(b).dst = b.dst /\ CompileNeighbor(b).dev = b.dev
        /\ DOMAIN CompileNeighbor(b) = DOMAIN b
  BY <1>2 DEF CompileNeighbor
<1>4. \A b \in node.neighbors : \A c \in node.neighbors : b.dst = c.dst /\ b.dev = c.dev => b = c
  BY DEF ValidNode
<1>5. ASSUME NEW b \in node.neighbors, NEW c \in node.neighbors,
             Identity(CompileNeighbor(b)) = Identity(CompileNeighbor(c))
      PROVE  CompileNeighbor(b) = CompileNeighbor(c)
  <2>1. b.dst = c.dst /\ b.dev = c.dev
    BY <1>3, <1>5 DEF Identity
  <2> QED
    BY <1>4, <2>1
<1> QED
  BY <1>1, <1>2, <1>3, <1>5

LEMMA PlansAreDistinct ==
  ASSUME NEW m, IsManifest(m), Accepted(m), NEW n \in DOMAIN m.nodes
  PROVE  Distinct(Plan(m), n)
<1> DEFINE p == Plan(m)
           node == m.nodes[n]
           c == CompileNode(node)
<1>1. p.links = m.links /\ p.nodes[n] = c
  BY DEF Plan
<1>2. IsNode(node) /\ ValidNode(node) /\ ValidReferences(m, n) /\ RoutesByTable(node)
  BY DEF IsManifest, Accepted, ValidNode
<1>3. /\ DOMAIN c.devices = DOMAIN node.devices /\ c.kind = node.kind
      /\ \A d \in DOMAIN node.devices : c.devices[d].type = node.devices[d].type
      /\ OfType(c, "vrf") = OfType(node, "vrf")
      /\ Interfaces(c) = Interfaces(node)
      /\ \A i \in Interfaces(node) : AddressesOf(c, i) = AddressesOf(node, i)
  BY <1>2, CompiledNode, CompiledDevice DEF IsNode
<1>4. \A d \in DOMAIN node.devices :
        node.devices[d].type \notin {"vlan", "vrf"} => DeviceMtu(p, n, d) # None
  BY DeviceWidths
<1>5. \A i \in DOMAIN c.macs : c.macs[i] # None
  BY DEF CompileNode, CompileMacs
<1>6. \A i : VrfTable(c, i) = VrfTable(node, i) /\ VrfOf(c, i) = VrfOf(node, i) /\ BondOf(c, i) = BondOf(node, i)
  BY <1>2, CompiledMembers
<1>7. \A r \in Range(c.routes) :
        /\ \E q \in Range(node.routes) : r.dev = q.dev /\ r.nexthops = q.nexthops
        /\ \A i \in Interfaces(node) : \A a \in AddressesOf(node, i) :
             r.table = VrfTable(node, i) => r.dst # Net(a)
  BY <1>2, CompiledRoutes
<1>8. /\ \A b, d \in c.neighbors : Identity(b) = Identity(d) => b = d
      /\ \A b \in c.neighbors : {"dst", "dev", "lladdr", "state", "proxy"} \subseteq DOMAIN b
  BY <1>2, CompiledNeighbors
<1>9. node.kind = "bridge" => \A d \in DOMAIN node.devices : node.devices[d].type \in {"vxlan", "geneve"}
  BY <1>2 DEF IsNode, ValidNode, ValidBridgeNode
<1>10. ASSUME NEW i, NEW f \in VrfOf(node, i)
       PROVE  BondOf(node, i) = {} /\ VrfOf(node, i) = {f} /\ i \notin OfType(node, "vrf")
  <2>1. f \in OfType(node, "vrf") /\ i \in Range(node.devices[f].interfaces)
    BY DEF VrfOf
  <2>2. node.kind = "linux"
    BY <1>2, <1>9, <2>1 DEF IsNode, OfType
  <2>3. VrfMembers(node)
    BY <1>2, <2>2 DEF ValidNode, ValidLinux
  <2> QED
    BY <2>1, <2>3 DEF VrfMembers
<1>11. \A q \in Range(node.routes) : q.nexthops = <<>> => q.dev # "lo"
  <2>1. ASSUME NEW q \in Range(node.routes), q.nexthops = <<>> PROVE q.dev \in Available(m, n)
    <3>1. RouteDevices(q) \subseteq Available(m, n)
      BY <1>2 DEF ValidReferences
    <3>2. q.dev \in RouteDevices(q)
      <4> DEFINE hop == [via |-> q.via, dev |-> q.dev]
      <4>1. Hops(q) = <<hop>>
        BY <2>1 DEF Hops
      <4>2. hop \in Range(Hops(q)) /\ hop.dev = q.dev
        BY <4>1 DEF Range
      <4> HIDE DEF hop
      <4> QED
        BY <4>2 DEF RouteDevices
    <3> QED
      BY <3>1, <3>2
  <2>2. "lo" \notin Available(m, n)
    <3>1. "lo" \notin Linked(m.links, n)
      BY EndsAreLinked
    <3>2. "lo" \notin DOMAIN node.devices /\ (node.kind = "bridge" => node.bridge.name # "lo")
      BY <1>2 DEF IsNode, ValidNode, ValidBridgeNode, ValidBridge
    <3> QED
      BY <3>1, <3>2 DEF Available, Addressed
  <2> QED
    BY <2>1, <2>2
<1> HIDE DEF c
<1>12. \A r \in Range(c.routes) :
         /\ r.nexthops = <<>> => r.dev # "lo"
         /\ \A i \in Interfaces(c) : \A a \in AddressesOf(c, i) :
              r.table = VrfTable(c, i) => r.dst # Net(a)
  BY <1>3, <1>6, <1>7, <1>11
<1>13. \A i, f : f \in VrfOf(c, i) =>
         BondOf(c, i) = {} /\ VrfOf(c, i) = {f} /\ i \notin OfType(c, "vrf")
  BY <1>3, <1>6, <1>10
<1>14. c.kind = "bridge" => \A d \in DOMAIN c.devices : c.devices[d].type \in {"vxlan", "geneve"}
  BY <1>3, <1>9
<1>15. \A d \in DOMAIN c.devices : c.devices[d].type \notin {"vlan", "vrf"} => DeviceMtu(p, n, d) # None
  BY <1>3, <1>4
<1>16. None \notin DOMAIN c.devices
  BY <1>2, <1>3 DEF IsNode
<1> QED
  BY <1>1, <1>5, <1>8, <1>12, <1>13, <1>14, <1>15, <1>16 DEF Distinct

-----------------------------------------------------------------------------
(* What a plan expects of an interface, part by part.                       *)

Parts == {"kind", "master", "mtu", "up", "addrs", "mac", "stp", "vlan_filtering", "priority",
          "port", "vlans", "qdisc", "data"}
Whole(d) == Parts \subseteq DOMAIN d /\ d.up = TRUE

LEMMA ShapesAreWhole ==
  ASSUME NEW p, NEW n, NEW i
  PROVE  /\ Whole(Loopback) /\ Whole(ExpectedDevice(p, n, i)) /\ Whole(ExpectedEnd(p, n, i))
         /\ Whole(ExpectedBridge(p.nodes[n]))
<1>1. \A kind : Whole(Plain(kind))
  BY DEF Whole, Plain, Parts
<1>2. Whole(Loopback)
  <2> DEFINE base == Plain("loopback")
             addrs == EmptyNs.links["lo"].addrs
  <2>1. Whole(base)
    BY <1>1
  <2> HIDE DEF base, addrs
  <2>2. Whole([base EXCEPT !.addrs = addrs])
    BY <2>1 DEF Whole, Parts
  <2> QED
    BY <2>2 DEF Loopback, base, addrs
<1>3. Whole(ExpectedEnd(p, n, i))
  <2> DEFINE base == Plain("veth")
             link == p.links[CHOOSE k \in LinksAt(p.links, n, i) : TRUE]
             mtu == link.mtu
             qdisc == IF link.netem # None THEN link.netem ELSE link.qdisc
  <2>1. Whole(base)
    BY <1>1
  <2> HIDE DEF base, mtu, qdisc
  <2>2. Whole([base EXCEPT !.mtu = mtu, !.qdisc = qdisc])
    BY <2>1 DEF Whole, Parts
  <2> QED
    BY <2>2 DEF ExpectedEnd, base, mtu, qdisc
<1>4. Whole(ExpectedBridge(p.nodes[n]))
  <2> DEFINE base == Plain("bridge")
             bridge == p.nodes[n].bridge
             a == bridge.stp
             b == bridge.priority
             c == bridge.vlan_filtering
  <2>1. Whole(base)
    BY <1>1
  <2> HIDE DEF base, a, b, c
  <2>2. Whole([base EXCEPT !.stp = a, !.priority = b, !.vlan_filtering = c])
    BY <2>1 DEF Whole, Parts
  <2> QED
    BY <2>2 DEF ExpectedBridge, base, a, b, c
<1>5. Whole(ExpectedDevice(p, n, i))
  <2> DEFINE dev == p.nodes[n].devices[i]
             base == Plain(dev.type)
             mtu == DeviceMtu(p, n, i)
             data == CASE dev.type = "bond" ->
                     [link |-> None, mode |-> dev.mode, miimon |-> dev.miimon,
                      lacp_rate |-> dev.lacp_rate, xmit_hash_policy |-> dev.xmit_hash_policy,
                      min_links |-> dev.min_links, primary |-> dev.primary]
                [] dev.type = "vrf"    -> [link |-> None, table |-> dev.table]
                [] dev.type = "geneve" -> [DataOf(dev) EXCEPT !.link = dev.link]
                [] OTHER -> DataOf(dev)
  <2>1. Whole(base)
    BY <1>1
  <2> HIDE DEF base, mtu, data
  <2>2. Whole([base EXCEPT !.mtu = mtu, !.data = data])
    BY <2>1 DEF Whole, Parts
  <2> QED
    BY <2>2, Zenon DEF ExpectedDevice, base, mtu, data
<1> QED
  BY <1>2, <1>3, <1>4, <1>5

LEMMA LoopbackIs ==
  /\ Loopback.kind = "loopback" /\ Loopback.mtu = None /\ Loopback.mac = None
  /\ Loopback.master = None /\ Loopback.addrs = EmptyNs.links["lo"].addrs
  /\ Loopback.port = NoPort /\ Loopback.vlans = <<>>
  BY DEF Loopback, Plain

(* The planned node, and its device.                                        *)
NodeOf(p, n) == p.nodes[n]
DeviceOf(p, n, i) == p.nodes[n].devices[i]

(* The kind, the width and the settings of what there is to be.             *)
LEMMA ExpectedDeviceIs ==
  ASSUME NEW p, NEW n, NEW i
  PROVE  LET d == ExpectedDevice(p, n, i) dev == DeviceOf(p, n, i) IN
         /\ d.kind = dev.type /\ d.mtu = DeviceMtu(p, n, i)
         /\ dev.type = "vrf" => d.data = [link |-> None, table |-> dev.table]
  BY DEF ExpectedDevice, Plain, DeviceOf

LEMMA ExpectedEndIs ==
  ASSUME NEW p, NEW n, NEW i
  PROVE  ExpectedEnd(p, n, i).kind = "veth" /\ ExpectedEnd(p, n, i).mtu = MtuAt(p.links, n, i)
  BY DEF ExpectedEnd, Plain, MtuAt

LEMMA ExpectedBridgeIs ==
  ASSUME NEW node
  PROVE  ExpectedBridge(node).kind = "bridge" /\ ExpectedBridge(node).mtu = None
  BY DEF ExpectedBridge, Plain

ExpectedShape(p, n, i) ==
  IF i \in DOMAIN p.nodes[n].devices THEN ExpectedDevice(p, n, i)
  ELSE IF i \in Linked(p.links, n) THEN ExpectedEnd(p, n, i)
  ELSE ExpectedBridge(p.nodes[n])
ExpectedMaster(node, i) == IF i \in OfType(node, "vrf") THEN None ELSE Master(node, i)
ExpectedMac(node, i)    == IF i \in DOMAIN node.macs THEN node.macs[i] ELSE None

(* The five settings a node gives any shape; the rest is the shape's own.   *)
Set(shape, master, addrs, mac, port, vlans) ==
  [shape EXCEPT !.master = master, !.addrs = addrs, !.mac = mac, !.port = port, !.vlans = vlans]
LEMMA SetFields ==
  ASSUME NEW shape, Whole(shape), NEW master, NEW addrs, NEW mac, NEW port, NEW vlans
  PROVE  LET whole == Set(shape, master, addrs, mac, port, vlans) IN
         /\ whole.kind = shape.kind /\ whole.mtu = shape.mtu /\ whole.data = shape.data
         /\ whole.master = master /\ whole.addrs = addrs /\ whole.mac = mac
         /\ whole.port = port /\ whole.vlans = vlans /\ whole.up = shape.up
<1> DEFINE whole == [shape EXCEPT !.master = master, !.addrs = addrs, !.mac = mac, !.port = port,
                                  !.vlans = vlans]
<1>1. /\ whole.kind = shape.kind /\ whole.mtu = shape.mtu /\ whole.data = shape.data
      /\ whole.master = master /\ whole.addrs = addrs /\ whole.mac = mac
      /\ whole.port = port /\ whole.vlans = vlans /\ whole.up = shape.up
  BY DEF Whole, Parts
<1>2. whole = Set(shape, master, addrs, mac, port, vlans)
  BY DEF Set
<1> HIDE DEF whole
<1> QED
  BY <1>1, <1>2

LEMMA ExpectedIsSet ==
  ASSUME NEW p, NEW n, NEW i, i # "lo"
  PROVE  /\ Whole(ExpectedShape(p, n, i))
         /\ Expected(p, n, i) =
              Set(ExpectedShape(p, n, i), ExpectedMaster(NodeOf(p, n), i), AddressesOf(NodeOf(p, n), i),
                  ExpectedMac(NodeOf(p, n), i), ExpectedPort(NodeOf(p, n), i),
                  ExpectedVlans(NodeOf(p, n), i))
<1>1. Whole(ExpectedShape(p, n, i))
  BY ShapesAreWhole DEF ExpectedShape
<1> QED
  BY <1>1, Zenon DEF Expected, ExpectedShape, ExpectedMaster, ExpectedMac, NodeOf, Set

LEMMA ExpectedPartByPart ==
  ASSUME NEW p, NEW n, NEW i, i # "lo"
  PROVE  LET d == Expected(p, n, i) shape == ExpectedShape(p, n, i) IN
         /\ d.up = shape.up
         /\ d.kind = shape.kind /\ d.mtu = shape.mtu /\ d.data = shape.data
<1> DEFINE node == NodeOf(p, n)
           shape == ExpectedShape(p, n, i)
           master == ExpectedMaster(node, i)
           addrs == AddressesOf(node, i)
           mac == ExpectedMac(node, i)
           port == ExpectedPort(node, i)
           vlans == ExpectedVlans(node, i)
<1>1. Whole(shape) /\ Expected(p, n, i) = Set(shape, master, addrs, mac, port, vlans)
  BY ExpectedIsSet
<1> HIDE DEF shape, master, addrs, mac, port, vlans
<1>2. LET d == Set(shape, master, addrs, mac, port, vlans) IN
      d.up = shape.up /\ d.kind = shape.kind /\ d.mtu = shape.mtu /\ d.data = shape.data
  BY <1>1, SetFields
<1> QED
  BY <1>1, <1>2 DEF shape

LEMMA ExpectedLoopback ==
  ASSUME NEW p, NEW n
  PROVE  Expected(p, n, "lo") = Loopback
  BY DEF Expected

LEMMA ExpectedIsUp ==
  ASSUME NEW p, NEW n, NEW i
  PROVE  Expected(p, n, i).up = TRUE
<1>1. CASE i = "lo"
  <2>1. Expected(p, n, i) = Loopback
    BY <1>1, ExpectedLoopback
  <2>2. Loopback.up = TRUE
    BY ShapesAreWhole DEF Whole
  <2> QED
    BY <2>1, <2>2
<1>2. CASE i # "lo"
  <2> DEFINE d == Expected(p, n, i)
             shape == ExpectedShape(p, n, i)
  <2>1. d.up = shape.up
    BY <1>2, ExpectedPartByPart
  <2>2. Whole(shape)
    BY <1>2, ExpectedIsSet
  <2> HIDE DEF d, shape
  <2>3. d.up = TRUE
    BY <2>1, <2>2 DEF Whole
  <2> QED
    BY <2>3 DEF d
<1> QED
  BY <1>1, <1>2

LEMMA ExpectedSettings ==
  ASSUME NEW p, NEW n, NEW i, i # "lo"
  PROVE  /\ i \notin OfType(NodeOf(p, n), "vrf") => Expected(p, n, i).master = Master(NodeOf(p, n), i)
         /\ i \in OfType(NodeOf(p, n), "vrf") => Expected(p, n, i).master = None
         /\ Expected(p, n, i).addrs = AddressesOf(NodeOf(p, n), i)
         /\ Expected(p, n, i).mac = ExpectedMac(NodeOf(p, n), i)
         /\ Expected(p, n, i).port = ExpectedPort(NodeOf(p, n), i)
         /\ Expected(p, n, i).vlans = ExpectedVlans(NodeOf(p, n), i)
<1> DEFINE node == NodeOf(p, n)
           shape == ExpectedShape(p, n, i)
           master == ExpectedMaster(node, i)
           addrs == AddressesOf(node, i)
           mac == ExpectedMac(node, i)
           port == ExpectedPort(node, i)
           vlans == ExpectedVlans(node, i)
<1>1. Whole(shape) /\ Expected(p, n, i) = Set(shape, master, addrs, mac, port, vlans)
  BY ExpectedIsSet
<1>2. /\ i \notin OfType(node, "vrf") => master = Master(node, i)
      /\ i \in OfType(node, "vrf") => master = None
  BY DEF ExpectedMaster
<1> HIDE DEF node, shape, master, addrs, mac, port, vlans
<1>3. LET d == Set(shape, master, addrs, mac, port, vlans) IN
      d.master = master /\ d.addrs = addrs /\ d.mac = mac /\ d.port = port /\ d.vlans = vlans
  BY <1>1, SetFields
<1>4. LET d == Expected(p, n, i) IN
      /\ d.master = master /\ d.addrs = addrs /\ d.mac = mac /\ d.port = port /\ d.vlans = vlans
  BY <1>1, <1>3
<1> QED
  BY <1>2, <1>4 DEF node, addrs, mac, port, vlans

LEMMA ExpectedOfDevice ==
  ASSUME NEW p, NEW n, NEW i, i # "lo", i \in DOMAIN p.nodes[n].devices
  PROVE  LET d == Expected(p, n, i) dev == DeviceOf(p, n, i) IN
         /\ d.kind = dev.type /\ d.mtu = DeviceMtu(p, n, i)
         /\ dev.type = "vrf" => d.data = [link |-> None, table |-> dev.table]
<1> DEFINE d == Expected(p, n, i)
           dev == DeviceOf(p, n, i)
           shape == ExpectedShape(p, n, i)
<1>1. shape = ExpectedDevice(p, n, i)
  BY DEF ExpectedShape
<1>2. d.kind = shape.kind /\ d.mtu = shape.mtu /\ d.data = shape.data
  BY ExpectedPartByPart
<1>3. /\ shape.kind = dev.type /\ shape.mtu = DeviceMtu(p, n, i)
      /\ dev.type = "vrf" => shape.data = [link |-> None, table |-> dev.table]
  BY <1>1, ExpectedDeviceIs
<1> QED
  BY <1>2, <1>3

LEMMA ExpectedOfEnd ==
  ASSUME NEW p, NEW n, NEW i, i # "lo", i \notin DOMAIN p.nodes[n].devices, i \in Linked(p.links, n)
  PROVE  LET d == Expected(p, n, i) IN d.kind = "veth" /\ d.mtu = MtuAt(p.links, n, i)
<1> DEFINE d == Expected(p, n, i)
           shape == ExpectedShape(p, n, i)
<1>1. shape = ExpectedEnd(p, n, i)
  BY DEF ExpectedShape
<1>2. d.kind = shape.kind /\ d.mtu = shape.mtu
  BY ExpectedPartByPart
<1>3. shape.kind = "veth" /\ shape.mtu = MtuAt(p.links, n, i)
  BY <1>1, ExpectedEndIs
<1> QED
  BY <1>2, <1>3

LEMMA ExpectedOfBridge ==
  ASSUME NEW p, NEW n, NEW i, i # "lo", i \notin DOMAIN p.nodes[n].devices, i \notin Linked(p.links, n)
  PROVE  LET d == Expected(p, n, i) IN d.kind = "bridge" /\ d.mtu = None
<1> DEFINE d == Expected(p, n, i)
           shape == ExpectedShape(p, n, i)
<1>1. shape = ExpectedBridge(NodeOf(p, n))
  BY DEF ExpectedShape, NodeOf
<1>2. d.kind = shape.kind /\ d.mtu = shape.mtu
  BY ExpectedPartByPart
<1>3. shape.kind = "bridge" /\ shape.mtu = None
  BY <1>1, ExpectedBridgeIs
<1> QED
  BY <1>2, <1>3

-----------------------------------------------------------------------------
(* What is seen of a node, and what it takes to match its plan.             *)

NodeMatches(p, n, seen) ==
  LET node == p.nodes[n] IN
  /\ InterfacesMatch(p, n, seen.interfaces)
  /\ RoutesMatch(node, seen.routes)
  /\ seen.rules = node.rules
  /\ NeighborsMatch(node.neighbors, seen.neighbors)
  /\ SysctlsMatch(node, seen.sysctls)

View(p, n, ns) == [i \in DOMAIN ns.links |-> Interface(p, n, ns, i)]
LEMMA PresentFields ==
  ASSUME NEW p, NEW n, NEW ns
  PROVE  LET node == p.nodes[n] seen == Present(p, n, ns) IN
         /\ seen.exists = TRUE /\ seen.interfaces = View(p, n, ns)
         /\ seen.routes = ConnectedRoutes(ns, View(p, n, ns)) \cup KernelRoutes(node, ns)
         /\ seen.rules = ReadRules(node, ns) /\ seen.neighbors = ReadNeighbors(node, ns)
         /\ seen.sysctls = ReadSysctls(node, ns)
  BY DEF Present, View

LinkOf(ns, i) == ns.links[i]

(* The interfaces of a node that matches.                                   *)
LEMMA SeenLinks ==
  ASSUME NEW p, NEW n, NEW ns, NodeMatches(p, n, Present(p, n, ns)), NEW i \in ExpectedNames(p, n)
  PROVE  LET node == NodeOf(p, n) l == LinkOf(ns, i) d == Expected(p, n, i) IN
         /\ i \in DOMAIN ns.links
         /\ l.kind = d.kind /\ l.master = d.master
         /\ ReadAddresses(node, l) = d.addrs /\ ReadVlans(node, ns, i) = d.vlans
         /\ Allows(d.mtu, l.mtu) /\ Allows(d.mac, l.mac)
         /\ \A s \in PortSettings : Allows(d.port[s], ReadPort(ns, i)[s])
         /\ QdiscMatches(d.qdisc, Qdisc(p, n, i, l.qdisc))
         /\ d.kind # "geneve" => Attributes(l) = d.data
<1> DEFINE d == Expected(p, n, i)
           r == Interface(p, n, ns, i)
           node == p.nodes[n]
           l == ns.links[i]
<1>1. i \in DOMAIN ns.links /\ InterfaceMatches(d, r)
  BY SeenBefore DEF NodeMatches
<1>2. /\ r.kind = l.kind /\ r.master = l.master /\ r.mtu = l.mtu /\ r.up = l.up
      /\ r.addrs = ReadAddresses(node, l) /\ r.mac = l.mac
      /\ r.port = ReadPort(ns, i) /\ r.vlans = ReadVlans(node, ns, i)
      /\ r.qdisc = Qdisc(p, n, i, l.qdisc) /\ r.data = Attributes(l)
  BY InterfaceFields
<1>4. DOMAIN NoPort = PortSettings
  BY DEF NoPort
<1> HIDE DEF d, r, l, node
<1>5. /\ r.kind = d.kind /\ r.master = d.master /\ r.up = d.up /\ r.addrs = d.addrs /\ r.vlans = d.vlans
      /\ Allows(d.mtu, r.mtu) /\ Allows(d.mac, r.mac)
      /\ \A s \in PortSettings : Allows(d.port[s], r.port[s])
      /\ QdiscMatches(d.qdisc, r.qdisc) /\ DataMatches(d, r)
  <2>1. \A f \in {"kind", "master", "up", "addrs", "vlans"} : r[f] = d[f]
    BY <1>1 DEF InterfaceMatches
  <2>2. /\ Allows(d["mtu"], r["mtu"]) /\ Allows(d["mac"], r["mac"])
        /\ \A s \in PortSettings : Allows(d.port[s], r.port[s])
        /\ QdiscMatches(d.qdisc, r.qdisc) /\ DataMatches(d, r)
    BY <1>1, <1>4 DEF InterfaceMatches
  <2> QED
    BY <2>1, <2>2
<1>6. d.kind # "geneve" => r.data = d.data
  BY <1>5 DEF DataMatches
<1>7. /\ i \in DOMAIN ns.links
      /\ l.kind = d.kind /\ l.master = d.master
      /\ ReadAddresses(node, l) = d.addrs /\ ReadVlans(node, ns, i) = d.vlans
      /\ Allows(d.mtu, l.mtu) /\ Allows(d.mac, l.mac)
      /\ \A s \in PortSettings : Allows(d.port[s], ReadPort(ns, i)[s])
      /\ QdiscMatches(d.qdisc, Qdisc(p, n, i, l.qdisc))
      /\ d.kind # "geneve" => Attributes(l) = d.data
  BY <1>1, <1>2, <1>5, <1>6
<1> QED
  BY <1>7 DEF d, l, node, NodeOf, LinkOf

(* A namespace as deploy left it, and verified it.                          *)
Verified(p, n, ns) ==
  /\ Placed(p, n) /\ Distinct(p, n) /\ Settled(p, n, ns)
  /\ ExpectedNames(p, n) \cap Ignored(p.nodes[n]) = {}
  /\ NodeMatches(p, n, Present(p, n, ns))

LEMMA LinksAreNamed ==
  ASSUME NEW p, NEW n, NEW ns, NodeMatches(p, n, Present(p, n, ns))
  PROVE  (DOMAIN ns.links) \ Ignored(p.nodes[n]) = ExpectedNames(p, n)
<1> DEFINE seen == Present(p, n, ns).interfaces
<1>0. seen = View(p, n, ns)
  BY PresentFields
<1>1. DOMAIN seen = DOMAIN ns.links
  BY <1>0 DEF View
<1>2. InterfacesMatch(p, n, seen)
  BY DEF NodeMatches
<1> HIDE DEF seen
<1>3. (DOMAIN seen) \ Ignored(p.nodes[n]) = ExpectedNames(p, n)
  BY <1>2 DEF InterfacesMatch
<1> QED
  BY <1>1, <1>3

LEMMA PimregIsBare == PimregLink.master = None /\ PimregLink.addrs = {} /\ PimregLink.kind = "unknown"
<1> DEFINE l == NewLink("unknown", 1472, "pimreg", NoData)
<1>1. l.master = None /\ {"master", "up"} \subseteq DOMAIN l
  BY DEF NewLink
<1> HIDE DEF l
<1>2. [l EXCEPT !.up = TRUE].master = None
  BY <1>1
<1> QED
  BY <1>2, PimregFacts DEF PimregLink, l

LEMMA IgnoredIsPimreg ==
  ASSUME NEW p, NEW n, NEW ns, Settled(p, n, ns), NEW i \in Ignored(p.nodes[n])
  PROVE  i = "pimreg" /\ i \in DOMAIN ns.links /\ ns.links[i] = PimregLink
<1>1. i = "pimreg"
  BY DEF Ignored
<1>2. Ignored(p.nodes[n]) # {}
  OBVIOUS
<1> QED
  BY <1>1, <1>2 DEF Settled

(* Somebody changes links the plan speaks of.                               *)
LEMMA ChangedIsExpected ==
  ASSUME NEW p, NEW n, NEW ns, Verified(p, n, ns), NEW c \in Changes(ns), c.do \notin OfPolicy
  PROVE  c.at \in ExpectedNames(p, n) /\ c.at \in DOMAIN ns.links
<1>1. /\ c.at \in DOMAIN ns.links
      /\ c \in LinkChanges(ns) \/ c \in PortChanges(ns) \/ c \in VethChanges(ns)
  BY ChangesAre, PolicyChangesAre
<1>2. ASSUME c.at \in Ignored(p.nodes[n]) PROVE FALSE
  <2>1. c.at = "pimreg" /\ ns.links[c.at] = PimregLink
    BY <1>2, IgnoredIsPimreg DEF Verified
  <2>2. /\ ns.links[c.at].master = None /\ ns.links[c.at].addrs = {}
        /\ ns.links[c.at].kind = "unknown"
    BY <2>1, PimregIsBare
  <2>3. CASE c \in LinkChanges(ns)
    <3>1. c.do \in OfLinks /\ (c.do = "unaddress" => c.to \in ns.links[c.at].addrs)
      BY <2>3, LinkChangesAre
    <3>2. /\ c.do = "release" => ns.links[c.at].master # None
          /\ c.do = "delete" => ns.links[c.at].kind = "dummy"
          /\ c.do \in {"mtu", "mac", "down", "address"} => c.at # "pimreg"
      BY DEF Changes
    <3> QED
      BY <2>1, <2>2, <3>1, <3>2 DEF OfLinks
  <2>4. CASE c \in PortChanges(ns)
    BY <2>2, <2>4, PortChangesAre DEF IsPort
  <2>5. CASE c \in VethChanges(ns)
    BY <2>2, <2>5, VethChangesAre
  <2> QED
    BY <1>1, <2>3, <2>4, <2>5
<1>3. NodeMatches(p, n, Present(p, n, ns))
  BY DEF Verified
<1> QED
  BY <1>1, <1>2, <1>3, LinksAreNamed

-----------------------------------------------------------------------------
(* What a namespace that was verified is known to be.                       *)

LEMMA ExpectedWidths ==
  ASSUME NEW p, NEW n, Placed(p, n), Distinct(p, n), NEW i \in ExpectedNames(p, n)
  PROVE  (Expected(p, n, i).mtu = None) <=> Follows(p.nodes[n], i)
<1> DEFINE node == p.nodes[n]
           d == Expected(p, n, i)
<1>1. i = "lo" \/ i \in Linked(p.links, n) \/ i \in DOMAIN node.devices
        \/ (node.kind = "bridge" /\ i = node.bridge.name)
  BY DEF ExpectedNames
<1>2. CASE i = "lo"
  <2>1. d = Loopback /\ Loopback.mtu = None
    BY <1>2, ExpectedLoopback, LoopbackIs
  <2> QED
    BY <1>2, <2>1 DEF Follows
<1>3. CASE i \in Linked(p.links, n)
  <2>1. i # "lo" /\ i \notin DOMAIN node.devices /\ (node.kind = "bridge" => i # node.bridge.name)
    BY <1>3 DEF Placed
  <2>2. d.mtu = MtuAt(p.links, n, i)
    BY <1>3, <2>1, ExpectedOfEnd
  <2>3. PICK k \in DOMAIN p.links : LinksAt(p.links, n, i) = {k}
    BY <1>3 DEF Placed
  <2>4. MtuAt(p.links, n, i) = p.links[k].mtu /\ p.links[k].mtu \in Int
    BY <2>3 DEF MtuAt, Placed
  <2>5. d.mtu \in Int
    BY <2>2, <2>4
  <2> QED
    BY <2>1, <2>5, NoneAssumption DEF Follows
<1>4. CASE i \in DOMAIN node.devices
  <2>1. i # "lo" /\ (node.kind = "bridge" => i # node.bridge.name)
    BY <1>4 DEF Placed
  <2>2. d.mtu = DeviceMtu(p, n, i)
    BY <1>4, <2>1, ExpectedOfDevice
  <2>3. node.devices[i].type \in {"vlan", "vrf"} => DeviceMtu(p, n, i) = None
    BY DEF DeviceMtu
  <2>4. node.devices[i].type \notin {"vlan", "vrf"} => DeviceMtu(p, n, i) # None
    BY <1>4 DEF Distinct
  <2> QED
    BY <1>4, <2>1, <2>2, <2>3, <2>4 DEF Follows
<1>5. CASE node.kind = "bridge" /\ i = node.bridge.name
  <2>1. i # "lo" /\ i \notin DOMAIN node.devices /\ i \notin Linked(p.links, n)
    BY <1>5 DEF Placed
  <2>2. d.mtu = None
    BY <2>1, ExpectedOfBridge
  <2> QED
    BY <1>5, <2>2 DEF Follows
<1> QED
  BY <1>1, <1>2, <1>3, <1>4, <1>5

(* The kinds of the links there are.                                        *)
LEMMA ExpectedKinds ==
  ASSUME NEW p, NEW n, Placed(p, n)
  PROVE  LET node == p.nodes[n] IN
         /\ \A d \in DOMAIN node.devices :
              d \in ExpectedNames(p, n) /\ Expected(p, n, d).kind = node.devices[d].type
         /\ \A d \in OfType(node, "vrf") :
              Expected(p, n, d).data = [link |-> None, table |-> node.devices[d].table]
         /\ node.kind = "bridge" => node.bridge.name \in ExpectedNames(p, n)
         /\ \A i \in ExpectedNames(p, n) : Expected(p, n, i).kind = "veth" <=> i \in Linked(p.links, n)
         /\ \A i \in ExpectedNames(p, n) :
              Expected(p, n, i).kind = "bridge" <=> node.kind = "bridge" /\ i = node.bridge.name
<1> DEFINE node == p.nodes[n]
<1>1. \A d \in DOMAIN node.devices :
        d \in ExpectedNames(p, n) /\ d # "lo" /\ Expected(p, n, d).kind = node.devices[d].type
  <2>1. SUFFICES ASSUME NEW d \in DOMAIN node.devices
        PROVE  d \in ExpectedNames(p, n) /\ d # "lo" /\ Expected(p, n, d).kind = node.devices[d].type
    OBVIOUS
  <2>2. d \in ExpectedNames(p, n) /\ d # "lo"
    BY DEF ExpectedNames, Placed
  <2>3. Expected(p, n, d).kind = DeviceOf(p, n, d).type
    BY <2>2, ExpectedOfDevice
  <2>4. DeviceOf(p, n, d) = node.devices[d]
    BY DEF DeviceOf
  <2> QED
    BY <2>2, <2>3, <2>4
<1>2. \A d \in OfType(node, "vrf") :
        Expected(p, n, d).data = [link |-> None, table |-> node.devices[d].table]
  <2>1. SUFFICES ASSUME NEW d \in DOMAIN node.devices, node.devices[d].type = "vrf"
        PROVE  Expected(p, n, d).data = [link |-> None, table |-> node.devices[d].table]
    BY DEF OfType
  <2>2. DeviceOf(p, n, d) = node.devices[d]
    BY DEF DeviceOf
  <2>3. DeviceOf(p, n, d).type = "vrf"
    BY <2>1, <2>2
  <2>4. Expected(p, n, d).data = [link |-> None, table |-> DeviceOf(p, n, d).table]
    BY <1>1, <2>3, ExpectedOfDevice
  <2> QED
    BY <2>2, <2>4
<1>3. node.kind = "bridge" => node.bridge.name \in ExpectedNames(p, n)
  BY DEF ExpectedNames
<1>4. \A i \in ExpectedNames(p, n) :
        i = "lo" \/ i \in Linked(p.links, n) \/ i \in DOMAIN node.devices
          \/ (node.kind = "bridge" /\ i = node.bridge.name)
  BY DEF ExpectedNames
<1>5. Expected(p, n, "lo").kind = "loopback" /\ "lo" \notin Linked(p.links, n)
        /\ (node.kind = "bridge" => "lo" # node.bridge.name)
  BY ExpectedLoopback, LoopbackIs DEF Placed
<1>6. ASSUME NEW i \in Linked(p.links, n)
      PROVE  Expected(p, n, i).kind = "veth" /\ (node.kind = "bridge" => i # node.bridge.name)
  BY ExpectedOfEnd DEF Placed
<1>7. ASSUME NEW d \in DOMAIN node.devices
      PROVE  /\ node.devices[d].type \notin {"veth", "bridge"} /\ d \notin Linked(p.links, n)
             /\ (node.kind = "bridge" => d # node.bridge.name)
  <2>1. node.devices[d].type \in DeviceTypes
    BY DEF Placed
  <2> QED
    BY <2>1 DEF Placed, DeviceTypes, Stacked
<1>8. ASSUME node.kind = "bridge"
      PROVE  Expected(p, n, node.bridge.name).kind = "bridge" /\ node.bridge.name \notin Linked(p.links, n)
  BY <1>8, ExpectedOfBridge DEF Placed
<1>9. \A i \in ExpectedNames(p, n) : Expected(p, n, i).kind = "veth" <=> i \in Linked(p.links, n)
  BY <1>1, <1>4, <1>5, <1>6, <1>7, <1>8
<1>10. \A i \in ExpectedNames(p, n) :
         Expected(p, n, i).kind = "bridge" <=> node.kind = "bridge" /\ i = node.bridge.name
  BY <1>1, <1>4, <1>5, <1>6, <1>7, <1>8
<1> QED
  BY <1>1, <1>2, <1>3, <1>9, <1>10

(* What is enslaved is enslaved to what the plan says.                      *)
LEMMA ExpectedMasters ==
  ASSUME NEW p, NEW n, Placed(p, n), Distinct(p, n), NEW i \in ExpectedNames(p, n)
  PROVE  LET node == p.nodes[n] m == Expected(p, n, i).master IN
         /\ m # None => m \in ExpectedNames(p, n)
         /\ m # None /\ Expected(p, n, m).kind = "bridge" =>
              node.kind = "bridge" /\ m = node.bridge.name
         /\ \A f \in VrfOf(node, i) : i # "lo" => m = f /\ VrfOf(node, i) = {f} /\ f \in OfType(node, "vrf")
         /\ VrfOf(node, i) = {} /\ m # None => Expected(p, n, m).kind # "vrf"
<1> DEFINE node == p.nodes[n]
           m == Expected(p, n, i).master
<1>1. CASE i = "lo"
  <2>1. m = None
    BY <1>1, ExpectedLoopback, LoopbackIs
  <2> QED
    BY <1>1, <2>1
<1>2. CASE i # "lo"
  <2>1. (i \in OfType(node, "vrf") => m = None) /\ (i \notin OfType(node, "vrf") => m = Master(node, i))
    <3>1. node = NodeOf(p, n)
      BY DEF NodeOf
    <3> HIDE DEF node
    <3> QED
      BY <1>2, <3>1, ExpectedSettings
  <2>2. \A d \in DOMAIN node.devices :
          d \in ExpectedNames(p, n) /\ Expected(p, n, d).kind = node.devices[d].type
    BY ExpectedKinds
  <2>3. ASSUME NEW f \in VrfOf(node, i)
        PROVE  m = f /\ VrfOf(node, i) = {f} /\ f \in OfType(node, "vrf") /\ f \in DOMAIN node.devices
    <3>1. BondOf(node, i) = {} /\ VrfOf(node, i) = {f} /\ i \notin OfType(node, "vrf")
      BY DEF Distinct
    <3>2. Master(node, i) = f
      BY <3>1 DEF Master
    <3> QED
      BY <2>1, <3>1, <3>2 DEF VrfOf, OfType
  <2>4. CASE VrfOf(node, i) # {}
    <3>1. PICK f : f \in VrfOf(node, i)
      BY <2>4
    <3>2. node.devices[f].type = "vrf"
      BY <3>1 DEF VrfOf, OfType
    <3> QED
      BY <2>2, <2>3, <3>1, <3>2
  <2>5. CASE VrfOf(node, i) = {} /\ BondOf(node, i) # {}
    <3>1. m = None \/ m \in BondOf(node, i)
      BY <2>1, <2>5 DEF Master
    <3>2. m # None => m \in DOMAIN node.devices /\ node.devices[m].type = "bond"
      BY <3>1 DEF BondOf, OfType
    <3> QED
      BY <2>2, <2>5, <3>2
  <2>6. CASE VrfOf(node, i) = {} /\ BondOf(node, i) = {}
    <3>1. m = None \/ (node.kind = "bridge" /\ m = node.bridge.name)
      BY <2>1, <2>6 DEF Master
    <3>2. node.kind = "bridge" =>
            node.bridge.name \in ExpectedNames(p, n) /\ Expected(p, n, node.bridge.name).kind = "bridge"
      BY ExpectedKinds
    <3> QED
      BY <2>6, <3>1, <3>2
  <2> QED
    BY <2>3, <2>4, <2>5, <2>6
<1> QED
  BY <1>1, <1>2

-----------------------------------------------------------------------------
(* A change to what the plan speaks of: the node does not match any more.   *)

(* Concerns, arm by arm.                                                    *)
LEMMA ConcernsAre ==
  ASSUME NEW node, NEW c
  PROVE  /\ c.do = "mtu"     => (Concerns(node, c) <=> ~Follows(node, c.at))
         /\ c.do = "mac"     => (Concerns(node, c) <=> c.at \in DOMAIN node.macs)
         /\ c.do = "flag"    => (Concerns(node, c) <=> /\ c.at \in DOMAIN node.bridge.ports
                                                       /\ node.bridge.ports[c.at][c.to[1]] # None)
         /\ c.do = "route"   => (Concerns(node, c) <=> node.routing = None)
         /\ c.do = "unroute" => (Concerns(node, c) <=> c.at \in Range(node.routes))
         /\ c.do = "age"     => (Concerns(node, c) <=> c.at.state \notin Dynamic)
         /\ c.do = "sysctl"  => (Concerns(node, c) <=> c.at \in DOMAIN node.sysctls)
<1> HIDE DEF Follows, Dynamic
<1>1. c.do = "mtu" => (Concerns(node, c) <=> ~Follows(node, c.at))
  BY Zenon DEF Concerns
<1>2. c.do = "mac" => (Concerns(node, c) <=> c.at \in DOMAIN node.macs)
  BY DEF Concerns
<1>3. c.do = "flag" => (Concerns(node, c) <=> /\ c.at \in DOMAIN node.bridge.ports
                                              /\ node.bridge.ports[c.at][c.to[1]] # None)
  BY DEF Concerns
<1>4. c.do = "route" => (Concerns(node, c) <=> node.routing = None)
  BY DEF Concerns
<1>5. c.do = "unroute" => (Concerns(node, c) <=> c.at \in Range(node.routes))
  BY DEF Concerns
<1>6. c.do = "age" => (Concerns(node, c) <=> c.at.state \notin Dynamic)
  BY DEF Concerns
<1>7. c.do = "sysctl" => (Concerns(node, c) <=> c.at \in DOMAIN node.sysctls)
  BY DEF Concerns
<1> QED
  BY <1>1, <1>2, <1>3, <1>4, <1>5, <1>6, <1>7

LEMMA TaggingConcerns ==
  ASSUME NEW node, NEW c, c.do \in {"vlan", "unvlan"}
  PROVE  Concerns(node, c) = node.bridge.vlan_filtering
  BY DEF Concerns

IsUp(l) == l.up = TRUE
LEMMA SeenIsUp ==
  ASSUME NEW p, NEW n, NEW ns, NodeMatches(p, n, Present(p, n, ns)), NEW i \in ExpectedNames(p, n)
  PROVE  i \in DOMAIN ns.links /\ IsUp(LinkOf(ns, i))
<1> DEFINE d == Expected(p, n, i)
           r == Interface(p, n, ns, i)
           l == LinkOf(ns, i)
<1>1. i \in DOMAIN ns.links /\ InterfaceMatches(d, r)
  BY SeenBefore DEF NodeMatches
<1>2. r.up = l.up
  BY InterfaceFields DEF LinkOf
<1>3. d.up = TRUE
  BY ExpectedIsUp
<1> HIDE DEF d, r, l
<1>4. r["up"] = d["up"]
  BY <1>1 DEF InterfaceMatches
<1>5. l.up = TRUE
  BY <1>2, <1>3, <1>4
<1> QED
  BY <1>1, <1>5 DEF IsUp, l

LEMMA VariesIn ==
  ASSUME NEW ns, NEW c, NEW f, NEW v, Varies(ns, c, f, v)
  PROVE  /\ LinkOf(Changed(ns, c), c.at)[f] = v /\ v # LinkOf(ns, c.at)[f]
         /\ \A g \in LinkFields : g # f => LinkOf(Changed(ns, c), c.at)[g] = LinkOf(ns, c.at)[g]
  BY DEF Varies, Touches, LinkOf

(* The plan says what is a port.                                            *)
LEMMA PortsArePlanned ==
  ASSUME NEW p, NEW n, Placed(p, n), Distinct(p, n), NEW ns,
         NodeMatches(p, n, Present(p, n, ns)), NEW i \in ExpectedNames(p, n)
  PROVE  IsPort(ns, i) <=> Expected(p, n, i).master # None
                             /\ Expected(p, n, Expected(p, n, i).master).kind = "bridge"
<1> DEFINE d == Expected(p, n, i)
           m == d.master
<1>1. LinkOf(ns, i).master = m
  BY SeenLinks
<1>2. m # None => m \in ExpectedNames(p, n)
  BY ExpectedMasters
<1>3. m # None => LinkOf(ns, m).kind = Expected(p, n, m).kind
  BY <1>2, SeenLinks
<1>4. IsPort(ns, i) <=> LinkOf(ns, i).master # None /\ LinkOf(ns, LinkOf(ns, i).master).kind = "bridge"
  BY DEF IsPort, LinkOf
<1> HIDE DEF m
<1>5. IsPort(ns, i) <=> m # None /\ LinkOf(ns, m).kind = "bridge"
  BY <1>1, <1>4
<1>6. IsPort(ns, i) <=> m # None /\ Expected(p, n, m).kind = "bridge"
  BY <1>3, <1>5
<1> QED
  BY <1>6 DEF m

(* And the table of every interface but the loopback.                       *)
LEMMA TablesAreRead ==
  ASSUME NEW p, NEW n, Placed(p, n), Distinct(p, n), NEW ns,
         NodeMatches(p, n, Present(p, n, ns)), NEW i \in ExpectedNames(p, n), i # "lo"
  PROVE  TableOf(ns, i) = VrfTable(p.nodes[n], i)
<1> DEFINE node == p.nodes[n]
           m == Expected(p, n, i).master
<1>1. LinkOf(ns, i).master = m
  BY SeenLinks
<1>2. m # None => m \in ExpectedNames(p, n)
  BY ExpectedMasters
<1>3. m # None => LinkOf(ns, m).kind = Expected(p, n, m).kind
  BY <1>2, SeenLinks
<1>4. TableOf(ns, i) = IF LinkOf(ns, i).master # None /\ LinkOf(ns, LinkOf(ns, i).master).kind = "vrf"
                       THEN LinkOf(ns, LinkOf(ns, i).master).data.table ELSE Main
  BY DEF TableOf, LinkOf
<1>5. CASE VrfOf(node, i) = {}
  <2>1. m # None => Expected(p, n, m).kind # "vrf"
    BY <1>5, ExpectedMasters
  <2> HIDE DEF m
  <2>2. TableOf(ns, i) = Main
    BY <1>1, <1>3, <1>4, <2>1
  <2> QED
    BY <1>5, <2>2 DEF VrfTable
<1>6. CASE VrfOf(node, i) # {}
  <2>1. PICK f : f \in VrfOf(node, i)
    BY <1>6
  <2>2. m = f /\ VrfOf(node, i) = {f} /\ f \in OfType(node, "vrf")
    BY <2>1, ExpectedMasters
  <2>3. f \in DOMAIN node.devices /\ node.devices[f].type = "vrf"
    BY <2>2 DEF OfType
  <2>4. f # None /\ f \in ExpectedNames(p, n)
    BY <2>3 DEF Distinct, ExpectedNames
  <2>5. Expected(p, n, f).kind = "vrf"
    BY <2>3, ExpectedKinds
  <2>6. Expected(p, n, f).data = [link |-> None, table |-> node.devices[f].table]
    BY <2>2, ExpectedKinds
  <2>7. LinkOf(ns, f).kind = "vrf" /\ Attributes(LinkOf(ns, f)) = Expected(p, n, f).data
    BY <2>4, <2>5, SeenLinks
  <2>8. Attributes(LinkOf(ns, f)) = LinkOf(ns, f).data
    BY <2>7 DEF Attributes
  <2>9. VrfTable(node, i) = node.devices[f].table
    BY <2>2 DEF VrfTable
  <2>10. TableOf(ns, i) = LinkOf(ns, f).data.table
    <3> HIDE DEF m
    <3> QED
      BY <1>1, <1>4, <2>2, <2>4, <2>7
  <2>11. LinkOf(ns, f).data = [link |-> None, table |-> node.devices[f].table]
    BY <2>6, <2>7, <2>8
  <2> QED
    BY <2>9, <2>10, <2>11
<1> QED
  BY <1>5, <1>6

(* A change after which a node that was verified still matches.             *)
Unseen(p, n, ns, c) ==
  /\ Verified(p, n, ns) /\ c \in Changes(ns)
  /\ NodeMatches(p, n, Present(p, n, Changed(ns, c)))

(* What is expected is read before and after.                               *)
LEMMA ReadTwice ==
  ASSUME NEW p, NEW n, NEW ns, NEW c, Unseen(p, n, ns, c), NEW i \in ExpectedNames(p, n)
  PROVE  LET node == NodeOf(p, n) s == Changed(ns, c) l == LinkOf(ns, i) m == LinkOf(s, i)
             d == Expected(p, n, i) IN
         /\ i \in DOMAIN ns.links /\ i \in DOMAIN s.links
         /\ l.kind = m.kind /\ l.master = m.master /\ m.kind = d.kind /\ m.master = d.master
         /\ ReadAddresses(node, l) = ReadAddresses(node, m)
         /\ ReadVlans(node, ns, i) = ReadVlans(node, s, i)
         /\ d.mtu # None => l.mtu = m.mtu
         /\ d.mac # None => l.mac = m.mac
         /\ \A f \in PortSettings : d.port[f] # None => ReadPort(ns, i)[f] = ReadPort(s, i)[f]
         /\ QdiscMatches(d.qdisc, Qdisc(p, n, i, l.qdisc)) /\ QdiscMatches(d.qdisc, Qdisc(p, n, i, m.qdisc))
<1> DEFINE s == Changed(ns, c)
<1>1. NodeMatches(p, n, Present(p, n, ns)) /\ NodeMatches(p, n, Present(p, n, s))
  BY DEF Unseen, Verified
<1> HIDE DEF s
<1> DEFINE node == NodeOf(p, n)
           d == Expected(p, n, i)
           l == LinkOf(ns, i)
           m == LinkOf(s, i)
<1>2. /\ i \in DOMAIN ns.links
      /\ l.kind = d.kind /\ l.master = d.master
      /\ ReadAddresses(node, l) = d.addrs /\ ReadVlans(node, ns, i) = d.vlans
      /\ Allows(d.mtu, l.mtu) /\ Allows(d.mac, l.mac)
      /\ \A f \in PortSettings : Allows(d.port[f], ReadPort(ns, i)[f])
      /\ QdiscMatches(d.qdisc, Qdisc(p, n, i, l.qdisc))
  BY <1>1, SeenLinks
<1>3. /\ i \in DOMAIN s.links
      /\ m.kind = d.kind /\ m.master = d.master
      /\ ReadAddresses(node, m) = d.addrs /\ ReadVlans(node, s, i) = d.vlans
      /\ Allows(d.mtu, m.mtu) /\ Allows(d.mac, m.mac)
      /\ \A f \in PortSettings : Allows(d.port[f], ReadPort(s, i)[f])
      /\ QdiscMatches(d.qdisc, Qdisc(p, n, i, m.qdisc))
  BY <1>1, SeenLinks
<1> HIDE DEF node, d, l, m
<1>4. /\ i \in DOMAIN ns.links /\ i \in DOMAIN s.links
      /\ l.kind = m.kind /\ l.master = m.master /\ m.kind = d.kind /\ m.master = d.master
      /\ ReadAddresses(node, l) = ReadAddresses(node, m)
      /\ ReadVlans(node, ns, i) = ReadVlans(node, s, i)
      /\ d.mtu # None => l.mtu = m.mtu
      /\ d.mac # None => l.mac = m.mac
      /\ \A f \in PortSettings : d.port[f] # None => ReadPort(ns, i)[f] = ReadPort(s, i)[f]
      /\ QdiscMatches(d.qdisc, Qdisc(p, n, i, l.qdisc)) /\ QdiscMatches(d.qdisc, Qdisc(p, n, i, m.qdisc))
  BY <1>2, <1>3 DEF Allows
<1> QED
  BY <1>4 DEF node, d, l, m, s

LEMMA VerifiedFacts ==
  ASSUME NEW p, NEW n, NEW ns, NEW c, Unseen(p, n, ns, c)
  PROVE  /\ Formed(ns) /\ Placed(p, n) /\ Distinct(p, n) /\ Settled(p, n, ns)
         /\ NodeMatches(p, n, Present(p, n, ns))
         /\ NodeMatches(p, n, Present(p, n, Changed(ns, c)))
         /\ c \in Changes(ns) /\ Changed(ns, c) # ns
         /\ c.do \notin OfPolicy =>
              /\ c.at \in ExpectedNames(p, n) /\ c.at \in DOMAIN ns.links
              /\ LinkOrigin(p, n, c.at, LinkOf(ns, c.at)) /\ IsLink(LinkOf(ns, c.at))
<1>1. Verified(p, n, ns) /\ c \in Changes(ns) /\ NodeMatches(p, n, Present(p, n, Changed(ns, c)))
  BY DEF Unseen
<1>2. /\ Formed(ns) /\ Placed(p, n) /\ Distinct(p, n) /\ Settled(p, n, ns)
      /\ NodeMatches(p, n, Present(p, n, ns))
  BY <1>1 DEF Verified, Settled
<1>3. c.do \notin OfPolicy => c.at \in ExpectedNames(p, n) /\ c.at \in DOMAIN ns.links
  BY <1>1, ChangedIsExpected
<1>4. \A j \in DOMAIN ns.links : LinkOrigin(p, n, j, LinkOf(ns, j)) /\ IsLink(LinkOf(ns, j))
  BY <1>2 DEF Settled, Formed, LinkOf
<1> QED
  BY <1>1, <1>2, <1>3, <1>4, ChangesAre

LEMMA GoneIsSeen ==
  ASSUME NEW p, NEW n, NEW ns, NEW c, Unseen(p, n, ns, c), c.do \in {"down", "release", "delete"}
  PROVE  FALSE
<1> DEFINE s == Changed(ns, c)
           i == c.at
<1>1. c.do \notin OfPolicy
  BY DEF OfPolicy
<1>2. Formed(ns) /\ c \in Changes(ns) /\ i \in ExpectedNames(p, n) /\ NodeMatches(p, n, Present(p, n, s))
  BY <1>1, VerifiedFacts
<1>3. /\ i \in DOMAIN s.links /\ LinkOf(ns, i).master = LinkOf(s, i).master
  BY <1>2, ReadTwice
<1>4. CASE c.do = "down"
  <2>1. IsUp(LinkOf(s, i))
    BY <1>2, SeenIsUp
  <2>2. s.links[i].up = FALSE
    BY <1>2, <1>4, DownIs
  <2>3. LinkOf(s, i).up = FALSE
    BY <2>2 DEF LinkOf
  <2> HIDE DEF s, i
  <2> QED
    BY <2>1, <2>3 DEF IsUp
<1>5. CASE c.do = "release"
  <2>1. LinkOf(s, i).master = None /\ LinkOf(ns, i).master # None
    BY <1>2, <1>5, ReleaseIs DEF LinkOf
  <2> QED
    BY <1>3, <2>1
<1>6. CASE c.do = "delete"
  BY <1>2, <1>3, <1>6, DeleteIs
<1> QED
  BY <1>4, <1>5, <1>6

LEMMA SettingIsSeen ==
  ASSUME NEW p, NEW n, NEW ns, NEW c, Unseen(p, n, ns, c), c.do \in {"mtu", "mac"},
         Concerns(p.nodes[n], c)
  PROVE  FALSE
<1> DEFINE s == Changed(ns, c)
           i == c.at
           node == p.nodes[n]
           l == LinkOf(ns, i)
           m == LinkOf(s, i)
<1>1. c.do \notin OfPolicy
  BY DEF OfPolicy
<1>2. /\ Formed(ns) /\ c \in Changes(ns) /\ i \in ExpectedNames(p, n)
      /\ Placed(p, n) /\ Distinct(p, n)
  BY <1>1, VerifiedFacts
<1>3. /\ Expected(p, n, i).mtu # None => l.mtu = m.mtu
      /\ Expected(p, n, i).mac # None => l.mac = m.mac
  BY <1>2, ReadTwice
<1>4. CASE c.do = "mtu"
  <2>1. ~Follows(node, i)
    BY <1>4, ConcernsAre
  <2>2. Expected(p, n, i).mtu # None
    BY <1>2, <2>1, ExpectedWidths
  <2>3. Varies(ns, c, "mtu", c.to)
    BY <1>2, <1>4, SettingsVary
  <2>4. m["mtu"] # l["mtu"]
    BY <2>3, VariesIn
  <2> HIDE DEF l, m
  <2> QED
    BY <1>3, <2>2, <2>4
<1>5. CASE c.do = "mac"
  <2>1. i \in DOMAIN node.macs
    BY <1>5, ConcernsAre
  <2>2. i # "lo" /\ node.macs[i] # None
    BY <1>2, <2>1 DEF Placed, Distinct
  <2>3. Expected(p, n, i).mac = ExpectedMac(NodeOf(p, n), i)
    BY <2>2, ExpectedSettings
  <2>4. ExpectedMac(NodeOf(p, n), i) = node.macs[i]
    BY <2>1 DEF ExpectedMac, NodeOf
  <2>5. Varies(ns, c, "mac", c.to)
    BY <1>2, <1>5, SettingsVary
  <2>6. m["mac"] # l["mac"]
    BY <2>5, VariesIn
  <2> HIDE DEF l, m
  <2> QED
    BY <1>3, <2>2, <2>3, <2>4, <2>6
<1> QED
  BY <1>4, <1>5

LEMMA AddressIsSeen ==
  ASSUME NEW p, NEW n, NEW ns, NEW c, Unseen(p, n, ns, c), c.do \in {"address", "unaddress"}
  PROVE  FALSE
<1> DEFINE s == Changed(ns, c)
           i == c.at
           node == NodeOf(p, n)
           l == LinkOf(ns, i)
           m == LinkOf(s, i)
           A == l.addrs
           B == m.addrs
<1>1. c.do \notin OfPolicy
  BY DEF OfPolicy
<1>2. /\ Formed(ns) /\ c \in Changes(ns) /\ i \in ExpectedNames(p, n)
      /\ LinkOrigin(p, n, i, l)
  BY <1>1, VerifiedFacts
<1>3. ReadAddresses(node, l) = ReadAddresses(node, m)
  BY <1>2, ReadTwice
<1>4. \A a : /\ a \in A /\ a.v \in Families(node) => a \in B
             /\ a \in B /\ a.v \in Families(node) => a \in A
  BY <1>3 DEF ReadAddresses
<1>5. c \in LinkChanges(ns)
  BY <1>2, ChangesAre, PortChangesAre, VethChangesAre, PolicyChangesAre DEF OfPorts, OfVeths, OfPolicy
<1>6. CASE c.do = "address"
  <2>1. c.to = Foreign
    BY <1>5, <1>6, LinkChangesAre
  <2>2. Varies(ns, c, "addrs", ns.links[c.at].addrs \cup {c.to})
    BY <1>2, <1>6, SetsVary
  <2>3. B = A \cup {Foreign} /\ B # A
    <3>1. m["addrs"] = ns.links[c.at].addrs \cup {c.to} /\ ns.links[c.at].addrs \cup {c.to} # l["addrs"]
      BY <2>2, VariesIn
    <3>2. ns.links[c.at].addrs = A
      BY DEF LinkOf
    <3> HIDE DEF l, m
    <3> QED
      BY <2>1, <3>1, <3>2
  <2>4. Foreign.v \in Families(node)
    BY DEF Foreign, Families
  <2> HIDE DEF A, B
  <2>5. Foreign \in A
    BY <1>4, <2>3, <2>4
  <2> QED
    BY <2>3, <2>5
<1>7. CASE c.do = "unaddress"
  <2>1. c.to \in A
    BY <1>5, <1>7, LinkChangesAre DEF LinkOf
  <2>2. Varies(ns, c, "addrs", ns.links[c.at].addrs \ {c.to})
    BY <1>2, <1>7, SetsVary
  <2>3. c.to \notin B
    <3>1. m["addrs"] = ns.links[c.at].addrs \ {c.to}
      BY <2>2, VariesIn
    <3> HIDE DEF m
    <3> QED
      BY <3>1
  <2>4. c.to.v \in Families(node)
    BY <1>2, <2>1 DEF LinkOrigin, NodeOf
  <2> HIDE DEF A, B
  <2> QED
    BY <1>4, <2>1, <2>3, <2>4
<1> QED
  BY <1>6, <1>7

(* A port of a bridge is one before and after, unless it is released.       *)
LEMMA PortRemains ==
  ASSUME NEW p, NEW n, NEW ns, NEW c, Unseen(p, n, ns, c), c.do \in OfPorts
  PROVE  LET node == p.nodes[n] IN
         /\ IsPort(ns, c.at) /\ IsPort(Changed(ns, c), c.at)
         /\ node.kind = "bridge" /\ c.at \in ExpectedNames(p, n) /\ c.at # "lo"
<1> DEFINE s == Changed(ns, c)
           i == c.at
           node == p.nodes[n]
           m == Expected(p, n, i).master
<1>1. c.do \notin OfPolicy
  BY DEF OfPorts, OfPolicy
<1>2. /\ Formed(ns) /\ c \in Changes(ns) /\ i \in ExpectedNames(p, n) /\ Placed(p, n) /\ Distinct(p, n)
      /\ NodeMatches(p, n, Present(p, n, ns)) /\ NodeMatches(p, n, Present(p, n, s))
  BY <1>1, VerifiedFacts
<1>3. c \in PortChanges(ns)
  BY <1>2, ChangesAre, LinkChangesAre, VethChangesAre, PolicyChangesAre DEF OfPorts, OfLinks, OfVeths, OfPolicy
<1>4. IsPort(ns, i)
  BY <1>3, PortChangesAre
<1>5. m # None /\ Expected(p, n, m).kind = "bridge"
  BY <1>2, <1>4, PortsArePlanned
<1>6. IsPort(s, i)
  BY <1>2, <1>5, PortsArePlanned
<1>7. node.kind = "bridge"
  BY <1>2, <1>5, ExpectedMasters
<1>8. i # "lo"
  <2>1. Expected(p, n, "lo").master = None
    BY ExpectedLoopback, LoopbackIs
  <2> QED
    BY <1>5, <2>1
<1> QED
  BY <1>2, <1>4, <1>6, <1>7, <1>8

LEMMA TagIsSeen ==
  ASSUME NEW p, NEW n, NEW ns, NEW c, Unseen(p, n, ns, c), c.do \in {"vlan", "unvlan"},
         Concerns(p.nodes[n], c)
  PROVE  FALSE
<1> DEFINE s == Changed(ns, c)
           i == c.at
           node == NodeOf(p, n)
           V == LinkOf(ns, i).vlans
           W == LinkOf(s, i).vlans
<1>1. c.do \in OfPorts /\ c.do \notin OfPolicy
  BY DEF OfPorts, OfPolicy
<1>2. /\ Formed(ns) /\ c \in Changes(ns) /\ i \in ExpectedNames(p, n) /\ Placed(p, n)
      /\ LinkOrigin(p, n, i, LinkOf(ns, i))
  BY <1>1, VerifiedFacts
<1>3. IsPort(ns, i) /\ IsPort(s, i) /\ NodeOf(p, n).kind = "bridge"
  BY <1>1, PortRemains DEF NodeOf
<1>4. node.bridge # None /\ node.bridge.vlan_filtering
  BY <1>2, <1>3, TaggingConcerns DEF Placed, NodeOf
<1>5. ReadVlans(node, ns, i) = ReadVlans(node, s, i)
  BY <1>2, ReadTwice
<1>6. ReadVlans(node, ns, i) = InOrder(V) /\ ReadVlans(node, s, i) = InOrder(W)
  BY <1>3, <1>4 DEF ReadVlans, LinkOf
<1>7. Tidy(V)
  BY <1>2 DEF LinkOrigin
<1>8. ASSUME Tidy(W) PROVE W = V
  <2>1. Range(InOrder(V)) = V /\ Range(InOrder(W)) = W
    BY <1>7, <1>8, OrderedAll
  <2> QED
    BY <1>5, <1>6, <2>1
<1>9. CASE c.do = "vlan"
  <2> DEFINE tag == c.to
             U == {v \in V : v.vid # tag.vid} \cup {tag}
  <2>1. c \in PortChanges(ns)
    BY <1>2, <1>9, ChangesAre, LinkChangesAre, VethChangesAre, PolicyChangesAre DEF OfLinks, OfVeths, OfPolicy
  <2>2. tag.vid \in Int
    BY <1>9, <2>1, PortChangesAre
  <2>3. Varies(ns, c, "vlans", {v \in ns.links[c.at].vlans : v.vid # c.to.vid} \cup {c.to})
    BY <1>2, <1>9, SetsVary
  <2>4. {v \in ns.links[c.at].vlans : v.vid # c.to.vid} \cup {c.to} = U
    BY DEF LinkOf
  <2>5. Varies(ns, c, "vlans", U)
    BY <2>3, <2>4
  <2> HIDE DEF tag
  <2>6. Tidy(U)
    BY <1>7, <2>2, MoreIsTidy
  <2> HIDE DEF U
  <2>7. LinkOf(s, i)["vlans"] = U /\ U # LinkOf(ns, i)["vlans"]
    BY <2>5, VariesIn
  <2> QED
    BY <1>8, <2>6, <2>7
<1>10. CASE c.do = "unvlan"
  <2> DEFINE U == {v \in V : v.vid # c.to}
  <2>1. Varies(ns, c, "vlans", {v \in ns.links[c.at].vlans : v.vid # c.to})
    BY <1>2, <1>10, SetsVary
  <2>2. {v \in ns.links[c.at].vlans : v.vid # c.to} = U
    BY DEF LinkOf
  <2>3. Varies(ns, c, "vlans", U)
    BY <2>1, <2>2
  <2>4. Tidy(U)
    BY <1>7, SmallerIsTidy
  <2> HIDE DEF U
  <2>5. LinkOf(s, i)["vlans"] = U /\ U # LinkOf(ns, i)["vlans"]
    BY <2>3, VariesIn
  <2> QED
    BY <1>8, <2>4, <2>5
<1> QED
  BY <1>9, <1>10

LEMMA FlagIsSeen ==
  ASSUME NEW p, NEW n, NEW ns, NEW c, Unseen(p, n, ns, c), c.do = "flag", Concerns(p.nodes[n], c)
  PROVE  FALSE
<1> DEFINE s == Changed(ns, c)
           i == c.at
           node == NodeOf(p, n)
           l == LinkOf(ns, i)
           m == LinkOf(s, i)
           f == c.to[1]
           v == c.to[2]
<1>1. c.do \in OfPorts /\ c.do \notin OfPolicy
  BY DEF OfPorts, OfPolicy
<1>2. /\ Formed(ns) /\ c \in Changes(ns) /\ i \in ExpectedNames(p, n) /\ IsLink(l)
  BY <1>1, VerifiedFacts
<1>3. IsPort(ns, i) /\ IsPort(s, i) /\ node.kind = "bridge" /\ i # "lo"
  BY <1>1, PortRemains DEF NodeOf
<1>4. i \in DOMAIN node.bridge.ports /\ node.bridge.ports[i][f] # None
  BY ConcernsAre DEF NodeOf
<1>5. c \in PortChanges(ns)
  BY <1>2, ChangesAre, LinkChangesAre, VethChangesAre, PolicyChangesAre DEF OfLinks, OfVeths, OfPolicy
<1>6. f \in {"hairpin", "isolated", "learning"} /\ v # l.port[f]
  BY <1>5, PortChangesAre DEF LinkOf
<1>7. f \in PortSettings /\ DOMAIN NoPort = PortSettings
  BY <1>6 DEF PortSettings, NoPort
<1>8. Expected(p, n, i).port = ExpectedPort(node, i)
  BY <1>3, ExpectedSettings
<1>9. ExpectedPort(node, i)[f] = node.bridge.ports[i][f]
  BY <1>3, <1>4, <1>7 DEF ExpectedPort
<1>10. ReadPort(ns, i)[f] = ReadPort(s, i)[f]
  <2>1. Expected(p, n, i).port[f] # None
    BY <1>4, <1>8, <1>9
  <2> HIDE DEF f
  <2> QED
    BY <1>2, <1>7, <2>1, ReadTwice
<1>11. ReadPort(ns, i) = l.port /\ ReadPort(s, i) = m.port
  BY <1>3 DEF ReadPort, LinkOf
<1>12. Varies(ns, c, "port", [ns.links[c.at].port EXCEPT ![c.to[1]] = c.to[2]])
  BY <1>2, SetsVary
<1>13. m.port = [l.port EXCEPT ![f] = v]
  <2>1. m["port"] = [ns.links[c.at].port EXCEPT ![c.to[1]] = c.to[2]]
    BY <1>12, VariesIn
  <2>2. ns.links[c.at].port = l.port
    BY DEF LinkOf
  <2> HIDE DEF m, l
  <2> QED
    BY <2>1, <2>2
<1>14. f \in DOMAIN l.port
  BY <1>2, <1>7 DEF IsLink
<1> HIDE DEF l, m, f, v
<1>15. m.port[f] = v
  BY <1>13, <1>14
<1> QED
  BY <1>6, <1>10, <1>11, <1>15

(* The root qdisc of an end that is shaped is read and asked for.           *)
LEMMA ShapesAreRead ==
  ASSUME NEW p, NEW n, Placed(p, n), NEW i, NEW raw, raw # None,
         \E k \in LinksAt(p.links, n, i) : raw = Shape(p.links[k])
  PROVE  i \in ShapedEnds(p, n) /\ Expected(p, n, i).qdisc # None
<1>1. PICK k \in LinksAt(p.links, n, i) : raw = Shape(p.links[k])
  OBVIOUS
<1>2. i \in Linked(p.links, n) /\ k \in DOMAIN p.links
  BY DEF Placed, LinksAt
<1>3. LinksAt(p.links, n, i) = {k}
  BY <1>2 DEF Placed
<1>4. Expected(p, n, i).qdisc = IF p.links[k].netem # None THEN p.links[k].netem ELSE p.links[k].qdisc
  BY <1>2, <1>3, ExpectedQdisc
<1>5. p.links[k].netem # None \/ p.links[k].qdisc # None
  BY <1>1 DEF Shape
<1> QED
  BY <1>2, <1>4, <1>5 DEF ShapedEnds

LEMMA QdiscIsSeen ==
  ASSUME NEW p, NEW n, NEW ns, NEW c, Unseen(p, n, ns, c), c.do \in {"qdisc", "options"}
  PROVE  FALSE
<1> DEFINE s == Changed(ns, c)
           i == c.at
           l == LinkOf(ns, i)
           m == LinkOf(s, i)
           d == Expected(p, n, i)
           raw == l.qdisc
           new == m.qdisc
           want == d.qdisc
<1>1. c.do \notin OfPolicy
  BY DEF OfPolicy
<1>2. /\ Formed(ns) /\ c \in Changes(ns) /\ i \in ExpectedNames(p, n) /\ Placed(p, n)
      /\ LinkOrigin(p, n, i, l)
  BY <1>1, VerifiedFacts
<1>3. /\ raw # None /\ (c.do = "options" => raw.kind = "red")
  BY <1>2 DEF Changes, LinkOf
<1>4. i \in ShapedEnds(p, n) /\ want # None
  <2>1. \E k \in LinksAt(p.links, n, i) : raw = Shape(p.links[k])
    BY <1>2, <1>3 DEF LinkOrigin
  <2> HIDE DEF raw, i
  <2> QED
    BY <1>2, <1>3, <2>1, ShapesAreRead
<1>5. QdiscMatches(want, Qdisc(p, n, i, raw)) /\ QdiscMatches(want, Qdisc(p, n, i, new))
  BY <1>2, ReadTwice
<1>6. c \in VethChanges(ns)
  BY <1>2, ChangesAre, LinkChangesAre, PortChangesAre, PolicyChangesAre DEF OfLinks, OfPorts, OfPolicy
<1>7. CASE c.do = "qdisc"
  <2>1. c.to = None
    BY <1>6, <1>7, VethChangesAre
  <2>2. Varies(ns, c, "qdisc", c.to)
    BY <1>2, <1>7, SettingsVary
  <2>3. m["qdisc"] = c.to
    BY <2>2, VariesIn
  <2>4. new = None
    BY <2>1, <2>3
  <2> HIDE DEF want, raw, new
  <2>5. Qdisc(p, n, i, new) = None
    BY <2>4 DEF Qdisc
  <2> QED
    BY <1>4, <1>5, <2>5 DEF QdiscMatches
<1>8. CASE c.do = "options"
  <2>1. new # raw
    <3>1. Varies(ns, c, "qdisc", [ns.links[c.at].qdisc EXCEPT !.limit = c.to])
      BY <1>2, <1>8, SettingsVary
    <3> DEFINE q == [ns.links[c.at].qdisc EXCEPT !.limit = c.to]
    <3> HIDE DEF q
    <3>2. Varies(ns, c, "qdisc", q)
      BY <3>1 DEF q
    <3>3. m["qdisc"] = q /\ q # l["qdisc"]
      BY <3>2, VariesIn
    <3> HIDE DEF m, l
    <3> QED
      BY <3>3
  <2> HIDE DEF want, raw, new
  <2>2. Qdisc(p, n, i, raw) = raw
    BY <1>3, <1>4, <1>8 DEF Qdisc
  <2>3. want = raw /\ want.kind = "red"
    BY <1>3, <1>4, <1>5, <1>8, <2>2 DEF QdiscMatches
  <2>4. Qdisc(p, n, i, new) # None /\ Qdisc(p, n, i, new).kind = "red"
    BY <1>4, <1>5, <2>3 DEF QdiscMatches
  <2>5. Decoded(new).kind = "tbf"
    BY DEF Decoded
  <2>6. Qdisc(p, n, i, new) = new
    BY <1>4, <2>4, <2>5 DEF Qdisc
  <2>7. want = new
    BY <1>4, <1>5, <2>3, <2>4, <2>6 DEF QdiscMatches
  <2> QED
    BY <2>1, <2>3, <2>7
<1> QED
  BY <1>7, <1>8

LEMMA PresentParts ==
  ASSUME NEW p, NEW n, NEW ns
  PROVE  LET node == NodeOf(p, n) seen == Present(p, n, ns) IN
         /\ seen.routes = ConnectedRoutes(ns, View(p, n, ns)) \cup KernelRoutes(node, ns)
         /\ seen.rules = ReadRules(node, ns) /\ seen.neighbors = ReadNeighbors(node, ns)
         /\ seen.sysctls = ReadSysctls(node, ns)
  BY DEF Present, View, NodeOf

(* What is compared of a node besides its interfaces, before and after.     *)
LEMMA PolicyReadTwice ==
  ASSUME NEW p, NEW n, NEW ns, NEW c, Unseen(p, n, ns, c)
  PROVE  LET node == NodeOf(p, n) s == Changed(ns, c) IN
         /\ RoutesMatch(node, ConnectedRoutes(s, View(p, n, s)) \cup KernelRoutes(node, s))
         /\ RoutesMatch(node, ConnectedRoutes(ns, View(p, n, ns)) \cup KernelRoutes(node, ns))
         /\ ReadRules(node, s) = node.rules
         /\ NeighborsMatch(node.neighbors, ReadNeighbors(node, s))
         /\ SysctlsMatch(node, ReadSysctls(node, ns)) /\ SysctlsMatch(node, ReadSysctls(node, s))
<1> DEFINE s == Changed(ns, c)
           node == NodeOf(p, n)
<1>1. \A t : NodeMatches(p, n, Present(p, n, t)) =>
        /\ RoutesMatch(node, ConnectedRoutes(t, View(p, n, t)) \cup KernelRoutes(node, t))
        /\ ReadRules(node, t) = node.rules
        /\ NeighborsMatch(node.neighbors, ReadNeighbors(node, t))
        /\ SysctlsMatch(node, ReadSysctls(node, t))
  <2> SUFFICES ASSUME NEW t, NodeMatches(p, n, Present(p, n, t))
      PROVE  /\ RoutesMatch(node, ConnectedRoutes(t, View(p, n, t)) \cup KernelRoutes(node, t))
             /\ ReadRules(node, t) = node.rules
             /\ NeighborsMatch(node.neighbors, ReadNeighbors(node, t))
             /\ SysctlsMatch(node, ReadSysctls(node, t))
    OBVIOUS
  <2> DEFINE seen == Present(p, n, t)
  <2>1. /\ RoutesMatch(node, seen.routes) /\ seen.rules = node.rules
        /\ NeighborsMatch(node.neighbors, seen.neighbors) /\ SysctlsMatch(node, seen.sysctls)
    BY DEF NodeMatches, NodeOf
  <2>2. /\ seen.routes = ConnectedRoutes(t, View(p, n, t)) \cup KernelRoutes(node, t)
        /\ seen.rules = ReadRules(node, t) /\ seen.neighbors = ReadNeighbors(node, t)
        /\ seen.sysctls = ReadSysctls(node, t)
    BY PresentParts
  <2> HIDE DEF seen, node
  <2> QED
    BY <2>1, <2>2
<1>2. NodeMatches(p, n, Present(p, n, ns)) /\ NodeMatches(p, n, Present(p, n, s))
  BY VerifiedFacts
<1> QED
  BY <1>1, <1>2

(* The declared routes lead elsewhere than the connected ones that are read.*)
LEMMA DeclaredIsNotConnected ==
  ASSUME NEW p, NEW n, Placed(p, n), Distinct(p, n), NEW ns, NEW s, Settled(p, n, ns),
         s.links = ns.links, NodeMatches(p, n, Present(p, n, s)), NEW r \in Range(p.nodes[n].routes)
  PROVE  r \notin ConnectedRoutes(s, View(p, n, s))
<1> DEFINE node == p.nodes[n]
<1> SUFFICES ASSUME r \in ConnectedRoutes(s, View(p, n, s)) PROVE FALSE
  OBVIOUS
<1>1. PICK i \in DOMAIN View(p, n, s) : \E a \in View(p, n, s)[i].addrs : r = RouteTo(Net(a), i, TableOf(s, i))
  BY DEF ConnectedRoutes
<1>2. PICK a \in View(p, n, s)[i].addrs : r = RouteTo(Net(a), i, TableOf(s, i))
  BY <1>1
<1>3. i \in DOMAIN s.links /\ View(p, n, s)[i] = Interface(p, n, s, i)
  BY <1>1 DEF View
<1>4. a \in ReadAddresses(node, LinkOf(s, i))
  <2>1. Interface(p, n, s, i).addrs = ReadAddresses(node, LinkOf(s, i))
    BY InterfaceFields DEF LinkOf
  <2> QED
    BY <1>2, <1>3, <2>1
<1>5. /\ r.nexthops = <<>> /\ r.dev = i /\ r.dst = Net(a) /\ r.table = TableOf(s, i)
  BY <1>2 DEF RouteTo
<1>6. i # "lo"
  BY <1>5 DEF Distinct
<1>7. i \notin Ignored(node)
  <2> SUFFICES ASSUME i \in Ignored(node) PROVE FALSE
    OBVIOUS
  <2>1. LinkOf(s, i) = PimregLink
    BY IgnoredIsPimreg DEF LinkOf
  <2>2. LinkOf(s, i).addrs = {}
    BY <2>1, PimregIsBare
  <2> QED
    BY <1>4, <2>2 DEF ReadAddresses
<1>8. i \in ExpectedNames(p, n)
  BY <1>3, <1>7, LinksAreNamed
<1>9. ReadAddresses(NodeOf(p, n), LinkOf(s, i)) = Expected(p, n, i).addrs
  BY <1>8, SeenLinks
<1>10. Expected(p, n, i).addrs = AddressesOf(NodeOf(p, n), i)
  BY <1>6, ExpectedSettings
<1>11. a \in AddressesOf(node, i)
  BY <1>4, <1>9, <1>10 DEF NodeOf
<1>12. i \in Interfaces(node)
  BY <1>11 DEF AddressesOf, Interfaces
<1>13. TableOf(s, i) = VrfTable(node, i)
  BY <1>6, <1>8, TablesAreRead
<1> QED
  BY <1>5, <1>11, <1>12, <1>13 DEF Distinct

LEMMA RouteIsSeen ==
  ASSUME NEW p, NEW n, NEW ns, NEW c, Unseen(p, n, ns, c), c.do \in {"route", "unroute"},
         Concerns(p.nodes[n], c)
  PROVE  FALSE
<1> DEFINE s == Changed(ns, c)
           node == NodeOf(p, n)
           r == c.at
<1>1. /\ Formed(ns) /\ c \in Changes(ns) /\ Placed(p, n) /\ Distinct(p, n) /\ Settled(p, n, ns)
      /\ NodeMatches(p, n, Present(p, n, s))
  BY VerifiedFacts
<1>2. RoutesMatch(node, ConnectedRoutes(s, View(p, n, s)) \cup KernelRoutes(node, s))
  BY PolicyReadTwice
<1>3. c \in PolicyChanges(ns)
  BY <1>1, ChangesAre, LinkChangesAre, PortChangesAre, VethChangesAre DEF OfLinks, OfPorts, OfVeths
<1>4. CASE c.do = "unroute"
  <2>1. r \in Range(node.routes)
    BY <1>4, ConcernsAre DEF NodeOf
  <2>2. s.links = ns.links /\ s.routes = ns.routes \ {r}
    BY ZenonT(40), <1>1, <1>4, PolicyIs DEF OfPolicy, Keeps
  <2>3. r \notin ConnectedRoutes(s, View(p, n, s))
    BY <1>1, <2>1, <2>2, DeclaredIsNotConnected DEF NodeOf
  <2>4. r \notin KernelRoutes(node, s)
    BY <2>2 DEF KernelRoutes
  <2>5. r \in ExpectedRoutes(node)
    BY <2>1 DEF ExpectedRoutes
  <2> HIDE DEF s, r, node
  <2> QED
    BY <1>2, <2>3, <2>4, <2>5 DEF RoutesMatch
<1>5. CASE c.do = "route"
  <2> DEFINE net == [v |-> 4, net |-> "foreign"]
             x == RouteTo(net, "lo", Main)
             loop == RouteTo([v |-> 4, net |-> "loopback"], "lo", Main)
  <2>1. node.routing = None
    BY <1>5, ConcernsAre DEF NodeOf
  <2>2. r = x
    BY <1>3, <1>5, PolicyChangesAre
  <2>3. s.routes = ns.routes \cup {r}
    BY <1>1, <1>5, PolicyIs DEF OfPolicy
  <2>4. x.dst = net /\ x.dev = "lo" /\ x.table = Main /\ x.nexthops = <<>> /\ net.v = 4
        /\ loop.dst = [v |-> 4, net |-> "loopback"]
    BY DEF RouteTo
  <2>5. net # [v |-> 4, net |-> "loopback"]
    OBVIOUS
  <2>6. \A a, i, t : RouteTo(Net(a), i, t).dev = i
    BY DEF RouteTo
  <2> HIDE DEF x, net, loop, s, node, r
  <2>7. x \in KernelRoutes(node, s)
    BY <2>2, <2>3, <2>4 DEF KernelRoutes, Families, ManagedTables
  <2>8. x \in ExpectedRoutes(node)
    BY <1>2, <2>1, <2>7 DEF RoutesMatch
  <2>9. x # loop
    BY <2>4, <2>5
  <2>10. ASSUME NEW i \in Interfaces(node), NEW a, x = RouteTo(Net(a), i, VrfTable(node, i)) PROVE FALSE
    <3>1. i = "lo"
      BY <2>4, <2>6, <2>10
    <3> QED
      BY <1>1, <3>1 DEF Placed, node, NodeOf
  <2>11. x \notin Range(node.routes)
    BY <1>1, <2>4 DEF Distinct, node, NodeOf
  <2> QED
    BY <2>8, <2>9, <2>10, <2>11 DEF ExpectedRoutes, loop
<1> QED
  BY <1>4, <1>5

LEMMA PolicyIsSeen ==
  ASSUME NEW p, NEW n, NEW ns, NEW c, Unseen(p, n, ns, c), c.do \in {"unrule", "forget", "age", "sysctl"},
         Concerns(p.nodes[n], c)
  PROVE  FALSE
<1> DEFINE s == Changed(ns, c)
           node == NodeOf(p, n)
           x == c.at
<1>1. Formed(ns) /\ c \in Changes(ns) /\ Distinct(p, n) /\ Settled(p, n, ns)
  BY VerifiedFacts
<1>2. /\ ReadRules(node, s) = node.rules
      /\ NeighborsMatch(node.neighbors, ReadNeighbors(node, s))
      /\ SysctlsMatch(node, ReadSysctls(node, ns)) /\ SysctlsMatch(node, ReadSysctls(node, s))
  BY PolicyReadTwice
<1>3. c \in PolicyChanges(ns)
  BY <1>1, ChangesAre, LinkChangesAre, PortChangesAre, VethChangesAre DEF OfLinks, OfPorts, OfVeths
<1>4. ns.rules \subseteq node.rules /\ ns.neighbors \subseteq node.neighbors
  BY <1>1 DEF Settled, NodeOf
<1>5. /\ \A b, d \in node.neighbors : Identity(b) = Identity(d) => b = d
      /\ \A b \in node.neighbors : {"dst", "dev", "lladdr", "state", "proxy"} \subseteq DOMAIN b
  BY <1>1 DEF Distinct, NodeOf
<1>6. CASE c.do = "unrule"
  <2>1. x \in ns.rules
    BY <1>3, <1>6, PolicyChangesAre
  <2>2. s.rules = ns.rules \ {x}
    BY <1>1, <1>6, PolicyIs DEF OfPolicy
  <2> HIDE DEF s, node, x
  <2> QED
    BY <1>2, <1>4, <2>1, <2>2 DEF ReadRules
<1>7. CASE c.do \in {"forget", "age"}
  <2>1. x \in ns.neighbors /\ (c.do = "age" => c.to = "stale")
    BY <1>3, <1>7, PolicyChangesAre
  <2>2. c.do = "age" => x.state \notin Dynamic
    BY ConcernsAre
  <2>3. PICK d \in s.neighbors : /\ Identity(d) = Identity(x)
                                 /\ x.state \notin Dynamic => d.state = x.state
    <3>1. \E d \in ReadNeighbors(node, s) :
            Identity(d) = Identity(x) /\ (x.state \notin Dynamic => d.state = x.state)
      BY <1>2, <1>4, <2>1 DEF NeighborsMatch
    <3> QED
      BY <3>1 DEF ReadNeighbors
  <2>4. d \notin ns.neighbors \ {x}
    BY <1>4, <1>5, <2>1, <2>3
  <2>5. CASE c.do = "forget"
    <3>1. s.neighbors = ns.neighbors \ {x}
      BY <1>1, <2>5, PolicyIs DEF OfPolicy
    <3> QED
      BY <2>3, <2>4, <3>1
  <2>6. CASE c.do = "age"
    <3> DEFINE y == [x EXCEPT !.state = c.to]
    <3>1. s.neighbors = (ns.neighbors \ {x}) \cup {y}
      BY <1>1, <2>6, PolicyIs DEF OfPolicy
    <3>2. y.state = "stale"
      BY <1>4, <1>5, <2>1, <2>6
    <3> HIDE DEF y
    <3>3. d = y
      BY <2>3, <2>4, <3>1
    <3> HIDE DEF x
    <3>4. x.state = "stale"
      BY <2>2, <2>3, <2>6, <3>2, <3>3
    <3> QED
      BY <2>2, <2>6, <3>4 DEF Dynamic
  <2> QED
    BY <1>7, <2>5, <2>6
<1>8. CASE c.do = "sysctl"
  <2>1. x \in DOMAIN node.sysctls
    BY <1>8, ConcernsAre DEF NodeOf
  <2>2. x \in DOMAIN ns.sysctls /\ c.to # ns.sysctls[x]
    BY <1>3, <1>8, PolicyChangesAre
  <2>3. s.sysctls = [ns.sysctls EXCEPT ![x] = c.to]
    BY <1>1, <1>8, PolicyIs DEF OfPolicy
  <2> HIDE DEF s, node, x
  <2>4. x \in DOMAIN s.sysctls /\ s.sysctls[x] = c.to
    BY <2>2, <2>3
  <2>5. ReadSysctls(node, ns)[x] = ns.sysctls[x] /\ ReadSysctls(node, s)[x] = s.sysctls[x]
    BY <2>1, <2>2, <2>4 DEF ReadSysctls
  <2> QED
    BY <1>2, <2>1, <2>2, <2>4, <2>5 DEF SysctlsMatch
<1> QED
  BY <1>6, <1>7, <1>8

(* Every change to what the plan speaks of is seen in its node, but for     *)
(* that of an identity, which the links tell.                               *)
LEMMA ConcernedIsSeen ==
  ASSUME NEW p, NEW n, NEW ns, Verified(p, n, ns), NEW c \in Changes(ns), Concerns(p.nodes[n], c),
         c.do # "alias"
  PROVE  ~NodeMatches(p, n, Present(p, n, Changed(ns, c)))
<1> SUFFICES ASSUME Unseen(p, n, ns, c) PROVE FALSE
  BY DEF Unseen
<1>1. c.do \notin {"down", "release", "delete"}
  BY GoneIsSeen
<1>2. c.do \notin {"mtu", "mac"}
  BY SettingIsSeen
<1>3. c.do \notin {"address", "unaddress"}
  BY AddressIsSeen
<1>4. c.do \notin {"vlan", "unvlan", "flag"}
  BY TagIsSeen, FlagIsSeen
<1>5. c.do \notin {"qdisc", "options"}
  BY QdiscIsSeen
<1>6. c.do \notin {"route", "unroute"}
  BY RouteIsSeen
<1>7. c.do \notin {"unrule", "forget", "age", "sysctl"}
  BY PolicyIsSeen
<1> QED
  BY <1>1, <1>2, <1>3, <1>4, <1>5, <1>6, <1>7, ChangesAre DEF OfLinks, OfPorts, OfVeths, OfPolicy

-----------------------------------------------------------------------------
(* A change to what the plan does not speak of: the node matches as before. *)

(* Links that differ at most in what a plan may leave open.                 *)
Open == {"mtu", "mac", "port", "vlans"}
Alike(ns, s) ==
  /\ DOMAIN s.links = DOMAIN ns.links
  /\ \A j \in DOMAIN ns.links : \A f \in LinkFields \ Open : LinkOf(s, j)[f] = LinkOf(ns, j)[f]

LEMMA AlikeFields ==
  ASSUME NEW ns, NEW s, Alike(ns, s), NEW j \in DOMAIN ns.links
  PROVE  LET l == LinkOf(ns, j) m == LinkOf(s, j) IN
         /\ m.kind = l.kind /\ m.master = l.master /\ m["up"] = l["up"] /\ m.addrs = l.addrs
         /\ m.data = l.data /\ m.qdisc = l.qdisc /\ m.alias = l.alias
  BY DEF Alike, LinkFields, Open

LEMMA MastersAreThere ==
  ASSUME NEW p, NEW n, NEW ns, Verified(p, n, ns), NEW j \in DOMAIN ns.links, LinkOf(ns, j).master # None
  PROVE  LinkOf(ns, j).master \in DOMAIN ns.links
<1>1. /\ Placed(p, n) /\ Distinct(p, n) /\ Settled(p, n, ns)
      /\ NodeMatches(p, n, Present(p, n, ns))
  BY DEF Verified
<1>2. CASE j \in Ignored(p.nodes[n])
  <2>1. LinkOf(ns, j) = PimregLink
    BY <1>1, <1>2, IgnoredIsPimreg DEF LinkOf
  <2> QED
    BY <2>1, PimregIsBare
<1>3. CASE j \notin Ignored(p.nodes[n])
  <2>1. j \in ExpectedNames(p, n)
    BY <1>1, <1>3, LinksAreNamed
  <2>2. LinkOf(ns, j).master = Expected(p, n, j).master
    BY <1>1, <2>1, SeenLinks
  <2>3. LinkOf(ns, j).master \in ExpectedNames(p, n)
    BY <1>1, <2>1, <2>2, ExpectedMasters
  <2> QED
    BY <1>1, <2>3, SeenLinks
<1> QED
  BY <1>2, <1>3

LEMMA AlikeTables ==
  ASSUME NEW p, NEW n, NEW ns, Verified(p, n, ns), NEW s, Alike(ns, s), NEW j \in DOMAIN ns.links
  PROVE  (IsPort(s, j) <=> IsPort(ns, j)) /\ TableOf(s, j) = TableOf(ns, j)
<1> DEFINE m == LinkOf(ns, j).master
<1>1. LinkOf(s, j).master = m
  BY AlikeFields
<1>2. m # None => LinkOf(s, m).kind = LinkOf(ns, m).kind /\ LinkOf(s, m).data = LinkOf(ns, m).data
  BY MastersAreThere, AlikeFields
<1>3. \A t : /\ IsPort(t, j) <=> LinkOf(t, j).master # None /\ LinkOf(t, LinkOf(t, j).master).kind = "bridge"
             /\ TableOf(t, j) = IF LinkOf(t, j).master # None /\ LinkOf(t, LinkOf(t, j).master).kind = "vrf"
                                THEN LinkOf(t, LinkOf(t, j).master).data.table ELSE Main
  BY DEF IsPort, TableOf, LinkOf
<1>4. LinkOf(ns, j).master = m
  OBVIOUS
<1> HIDE DEF m
<1>5. IsPort(s, j) <=> IsPort(ns, j)
  BY <1>1, <1>2, <1>3, <1>4
<1>6. TableOf(s, j) = TableOf(ns, j)
  BY <1>1, <1>2, <1>3, <1>4
<1> QED
  BY <1>5, <1>6

LEMMA AlikeRoutes ==
  ASSUME NEW p, NEW n, NEW ns, Verified(p, n, ns), NEW s, Alike(ns, s)
  PROVE  ConnectedRoutes(s, View(p, n, s)) = ConnectedRoutes(ns, View(p, n, ns))
<1>1. DOMAIN View(p, n, s) = DOMAIN ns.links /\ DOMAIN View(p, n, ns) = DOMAIN ns.links
  BY DEF View, Alike
<1>2. ASSUME NEW j \in DOMAIN ns.links
      PROVE  View(p, n, s)[j].addrs = View(p, n, ns)[j].addrs /\ TableOf(s, j) = TableOf(ns, j)
  <2>1. /\ View(p, n, s)[j] = Interface(p, n, s, j)
        /\ View(p, n, ns)[j] = Interface(p, n, ns, j)
    BY DEF View, Alike
  <2>2. \A t : Interface(p, n, t, j).addrs = ReadAddresses(p.nodes[n], LinkOf(t, j))
    BY InterfaceFields DEF LinkOf
  <2>3. LinkOf(s, j).addrs = LinkOf(ns, j).addrs
    BY AlikeFields
  <2>4. ReadAddresses(p.nodes[n], LinkOf(s, j)) = ReadAddresses(p.nodes[n], LinkOf(ns, j))
    BY <2>3 DEF ReadAddresses
  <2> QED
    BY <2>1, <2>2, <2>4, AlikeTables
<1> DEFINE Routes(t, j) == {RouteTo(Net(a), j, TableOf(t, j)) : a \in View(p, n, t)[j].addrs}
<1>3. \A j \in DOMAIN ns.links : Routes(s, j) = Routes(ns, j)
  BY <1>2
<1>4. /\ ConnectedRoutes(s, View(p, n, s)) = UNION {Routes(s, j) : j \in DOMAIN ns.links}
      /\ ConnectedRoutes(ns, View(p, n, ns)) = UNION {Routes(ns, j) : j \in DOMAIN ns.links}
  BY <1>1 DEF ConnectedRoutes
<1> HIDE DEF Routes
<1>5. {Routes(s, j) : j \in DOMAIN ns.links} = {Routes(ns, j) : j \in DOMAIN ns.links}
  BY <1>3
<1> QED
  BY <1>4, <1>5

(* What it takes to match, part by part.                                    *)
Policies(p, n, s) ==
  LET node == NodeOf(p, n) IN
  /\ RoutesMatch(node, ConnectedRoutes(s, View(p, n, s)) \cup KernelRoutes(node, s))
  /\ ReadRules(node, s) = node.rules
  /\ NeighborsMatch(node.neighbors, ReadNeighbors(node, s))
  /\ SysctlsMatch(node, ReadSysctls(node, s))
LEMMA MatchingParts ==
  ASSUME NEW p, NEW n, NEW s
  PROVE  NodeMatches(p, n, Present(p, n, s)) <=>
           InterfacesMatch(p, n, View(p, n, s)) /\ Policies(p, n, s)
<1> DEFINE seen == Present(p, n, s)
           node == NodeOf(p, n)
<1>1. NodeMatches(p, n, seen) <=>
        /\ InterfacesMatch(p, n, seen.interfaces)
        /\ RoutesMatch(node, seen.routes) /\ seen.rules = node.rules
        /\ NeighborsMatch(node.neighbors, seen.neighbors) /\ SysctlsMatch(node, seen.sysctls)
  BY DEF NodeMatches, NodeOf
<1>2. /\ seen.routes = ConnectedRoutes(s, View(p, n, s)) \cup KernelRoutes(node, s)
      /\ seen.rules = ReadRules(node, s) /\ seen.neighbors = ReadNeighbors(node, s)
      /\ seen.sysctls = ReadSysctls(node, s)
  BY PresentParts
<1>3. seen.interfaces = View(p, n, s)
  BY DEF Present, View
<1>4. Policies(p, n, s) <=>
        /\ RoutesMatch(node, ConnectedRoutes(s, View(p, n, s)) \cup KernelRoutes(node, s))
        /\ ReadRules(node, s) = node.rules
        /\ NeighborsMatch(node.neighbors, ReadNeighbors(node, s))
        /\ SysctlsMatch(node, ReadSysctls(node, s))
  BY DEF Policies
<1> HIDE DEF seen, node
<1> QED
  BY <1>1, <1>2, <1>3, <1>4 DEF seen

(* The links match if what the plan leaves open is all that differs.        *)
LEMMA AlikeMatches ==
  ASSUME NEW p, NEW n, NEW ns, Verified(p, n, ns), NEW s, Alike(ns, s),
         NEW i \in ExpectedNames(p, n),
         Allows(Expected(p, n, i).mtu, LinkOf(s, i).mtu), Allows(Expected(p, n, i).mac, LinkOf(s, i).mac),
         \A f \in PortSettings : Allows(Expected(p, n, i).port[f], ReadPort(s, i)[f]),
         ReadVlans(NodeOf(p, n), s, i) = ReadVlans(NodeOf(p, n), ns, i)
  PROVE  InterfaceMatches(Expected(p, n, i), Interface(p, n, s, i))
<1> DEFINE d == Expected(p, n, i)
           r == Interface(p, n, ns, i)
           q == Interface(p, n, s, i)
           l == LinkOf(ns, i)
           m == LinkOf(s, i)
           node == NodeOf(p, n)
<1>1. i \in DOMAIN ns.links /\ InterfaceMatches(d, r)
  BY SeenBefore DEF Verified, NodeMatches
<1>2. /\ m.kind = l.kind /\ m.master = l.master /\ m["up"] = l["up"] /\ m.addrs = l.addrs
      /\ m.data = l.data /\ m.qdisc = l.qdisc
  BY <1>1, AlikeFields
<1>3. \A t : LET x == Interface(p, n, t, i) k == LinkOf(t, i) IN
        /\ x["kind"] = k.kind /\ x["master"] = k.master /\ x["up"] = k["up"]
        /\ x["addrs"] = ReadAddresses(node, k) /\ x["stp"] = BridgeSetting(k, "stp")
        /\ x["vlan_filtering"] = BridgeSetting(k, "vlan_filtering")
        /\ x["priority"] = BridgeSetting(k, "priority") /\ x["vlans"] = ReadVlans(node, t, i)
        /\ x["mtu"] = k.mtu /\ x["mac"] = k.mac /\ x.port = ReadPort(t, i)
        /\ x.qdisc = Qdisc(p, n, i, k.qdisc) /\ x.data = Attributes(k)
  BY DEF Interface, LinkOf, NodeOf
<1>4. /\ ReadAddresses(node, m) = ReadAddresses(node, l)
      /\ \A f : BridgeSetting(m, f) = BridgeSetting(l, f)
      /\ Attributes(m) = Attributes(l)
  BY <1>2 DEF ReadAddresses, BridgeSetting, Attributes
<1>5. /\ q["kind"] = r["kind"] /\ q["master"] = r["master"] /\ q["up"] = r["up"]
      /\ q["addrs"] = r["addrs"] /\ q["stp"] = r["stp"] /\ q["vlan_filtering"] = r["vlan_filtering"]
      /\ q["priority"] = r["priority"] /\ q["vlans"] = r["vlans"] /\ q.qdisc = r.qdisc
      /\ q.data = r.data /\ q["mtu"] = m.mtu /\ q["mac"] = m.mac /\ q.port = ReadPort(s, i)
  BY <1>2, <1>3, <1>4
<1>6. DOMAIN NoPort = PortSettings
  BY DEF NoPort, PortSettings
<1> HIDE DEF d, r, q, l, m, node
<1>7. \A f \in {"kind", "master", "up", "addrs", "stp", "vlan_filtering", "vlans"} : q[f] = d[f]
  BY <1>1, <1>5 DEF InterfaceMatches
<1>8. \A f \in {"mtu", "mac", "priority"} : Allows(d[f], q[f])
  <2>1. Allows(d["priority"], q["priority"])
    BY <1>1, <1>5 DEF InterfaceMatches
  <2>2. Allows(d["mtu"], q["mtu"]) /\ Allows(d["mac"], q["mac"])
    BY <1>5 DEF d, m
  <2> QED
    BY <2>1, <2>2
<1>9. \A f \in DOMAIN NoPort : Allows(d.port[f], q.port[f])
  BY <1>5, <1>6 DEF d
<1>10. QdiscMatches(d.qdisc, q.qdisc)
  BY <1>1, <1>5 DEF InterfaceMatches
<1>11. DataMatches(d, q)
  BY <1>1, <1>5 DEF InterfaceMatches, DataMatches
<1>12. InterfaceMatches(d, q)
  BY <1>7, <1>8, <1>9, <1>10, <1>11 DEF InterfaceMatches
<1> QED
  BY <1>12 DEF d, q

LEMMA SameLinksSameView ==
  ASSUME NEW p, NEW n, NEW ns, NEW s, s.links = ns.links
  PROVE  View(p, n, s) = View(p, n, ns)
<1>1. \A j : Interface(p, n, s, j) = Interface(p, n, ns, j)
  BY DEF Interface, ReadPort, ReadVlans, IsPort
<1> QED
  BY <1>1 DEF View

LEMMA VaryingIsAlike ==
  ASSUME NEW ns, NEW c, NEW f \in Open, NEW v, Varies(ns, c, f, v)
  PROVE  /\ Alike(ns, Changed(ns, c))
         /\ \A j \in DOMAIN ns.links : j # c.at => LinkOf(Changed(ns, c), j) = LinkOf(ns, j)
         /\ \A j \in DOMAIN ns.links : \A g \in LinkFields :
              g # f => LinkOf(Changed(ns, c), j)[g] = LinkOf(ns, j)[g]
<1> DEFINE s == Changed(ns, c)
           i == c.at
<1>1. /\ DOMAIN s.links = DOMAIN ns.links
      /\ \A j \in DOMAIN ns.links : j # i => LinkOf(s, j) = LinkOf(ns, j)
      /\ \A g \in LinkFields : g # f => LinkOf(s, i)[g] = LinkOf(ns, i)[g]
  BY DEF Varies, Touches, LinkOf
<1>2. \A j \in DOMAIN ns.links : \A g \in LinkFields : g # f => LinkOf(s, j)[g] = LinkOf(ns, j)[g]
  BY <1>1
<1> QED
  BY <1>1, <1>2 DEF Alike

(* A setting of a link that the plan leaves open.                           *)
LEMMA OpenSettingIsUnseen ==
  ASSUME NEW p, NEW n, NEW ns, Verified(p, n, ns), NEW c \in Changes(ns), NEW f \in Open, NEW v,
         c.do \notin OfPolicy, Varies(ns, c, f, v),
         f = "mtu" => Expected(p, n, c.at).mtu = None,
         f = "mac" => Expected(p, n, c.at).mac = None,
         f = "vlans" => NodeOf(p, n).bridge = None \/ NodeOf(p, n).bridge.vlan_filtering = FALSE,
         f = "port" => \A g \in PortSettings :
           Allows(Expected(p, n, c.at).port[g], ReadPort(Changed(ns, c), c.at)[g])
  PROVE  NodeMatches(p, n, Present(p, n, Changed(ns, c)))
<1> DEFINE s == Changed(ns, c)
           i == c.at
           node == NodeOf(p, n)
<1>1. /\ DOMAIN s.links = DOMAIN ns.links
      /\ s.routes = ns.routes /\ s.rules = ns.rules /\ s.neighbors = ns.neighbors
      /\ s.sysctls = ns.sysctls
  BY DEF Varies, Touches
<1>2. /\ \A j \in DOMAIN ns.links : j # i => LinkOf(s, j) = LinkOf(ns, j)
      /\ \A j \in DOMAIN ns.links : \A g \in LinkFields : g # f => LinkOf(s, j)[g] = LinkOf(ns, j)[g]
  BY VaryingIsAlike
<1>3. Alike(ns, s)
  BY VaryingIsAlike
<1>4. i \in ExpectedNames(p, n) /\ i \in DOMAIN ns.links
  BY ChangedIsExpected
<1>5. NodeMatches(p, n, Present(p, n, ns)) /\ Placed(p, n) /\ Distinct(p, n)
  BY DEF Verified
<1> HIDE DEF s, i, node
<1>6. ASSUME NEW j \in ExpectedNames(p, n)
      PROVE  InterfaceMatches(Expected(p, n, j), Interface(p, n, s, j))
  <2>1. /\ j \in DOMAIN ns.links
        /\ Allows(Expected(p, n, j).mtu, LinkOf(ns, j).mtu)
        /\ Allows(Expected(p, n, j).mac, LinkOf(ns, j).mac)
        /\ \A g \in PortSettings : Allows(Expected(p, n, j).port[g], ReadPort(ns, j)[g])
    BY <1>5, SeenLinks
  <2>2. IsPort(s, j) <=> IsPort(ns, j)
    BY <1>3, <2>1, AlikeTables
  <2>3. Allows(Expected(p, n, j).mtu, LinkOf(s, j).mtu)
    <3>1. CASE f = "mtu" /\ j = i
      BY <3>1 DEF Allows, i
    <3>2. CASE ~(f = "mtu" /\ j = i)
      <4>1. LinkOf(s, j)["mtu"] = LinkOf(ns, j)["mtu"]
        BY <1>1, <1>2, <2>1, <3>2 DEF LinkFields
      <4> QED
        BY <2>1, <4>1
    <3> QED
      BY <3>1, <3>2
  <2>4. Allows(Expected(p, n, j).mac, LinkOf(s, j).mac)
    <3>1. CASE f = "mac" /\ j = i
      BY <3>1 DEF Allows, i
    <3>2. CASE ~(f = "mac" /\ j = i)
      <4>1. LinkOf(s, j)["mac"] = LinkOf(ns, j)["mac"]
        BY <1>1, <1>2, <2>1, <3>2 DEF LinkFields
      <4> QED
        BY <2>1, <4>1
    <3> QED
      BY <3>1, <3>2
  <2>5. \A g \in PortSettings : Allows(Expected(p, n, j).port[g], ReadPort(s, j)[g])
    <3>1. CASE f = "port" /\ j = i
      BY <3>1 DEF i, s
    <3>2. CASE ~(f = "port" /\ j = i)
      <4>1. LinkOf(s, j)["port"] = LinkOf(ns, j)["port"]
        BY <1>1, <1>2, <2>1, <3>2 DEF LinkFields
      <4>2. ReadPort(s, j) = ReadPort(ns, j)
        BY <2>2, <4>1 DEF ReadPort, LinkOf
      <4> QED
        BY <2>1, <4>2
    <3> QED
      BY <3>1, <3>2
  <2>6. ReadVlans(NodeOf(p, n), s, j) = ReadVlans(NodeOf(p, n), ns, j)
    <3>1. CASE f = "vlans" /\ j = i
      BY <3>1 DEF ReadVlans
    <3>2. CASE ~(f = "vlans" /\ j = i)
      <4>1. LinkOf(s, j)["vlans"] = LinkOf(ns, j)["vlans"]
        BY <1>1, <1>2, <2>1, <3>2 DEF LinkFields
      <4> QED
        BY <2>2, <4>1 DEF ReadVlans, LinkOf
    <3> QED
      BY <3>1, <3>2
  <2> QED
    BY <1>3, <2>3, <2>4, <2>5, <2>6, AlikeMatches
<1>7. InterfacesMatch(p, n, View(p, n, s))
  <2>1. InterfacesMatch(p, n, View(p, n, ns))
    BY <1>5, MatchingParts
  <2>2. /\ DOMAIN View(p, n, s) = DOMAIN ns.links /\ DOMAIN View(p, n, ns) = DOMAIN ns.links
        /\ \A j \in DOMAIN ns.links : View(p, n, s)[j] = Interface(p, n, s, j)
    BY <1>1 DEF View
  <2>3. \A j \in ExpectedNames(p, n) : j \in DOMAIN ns.links
    BY <1>5, SeenLinks
  <2>4. \A j \in ExpectedNames(p, n) : InterfaceMatches(Expected(p, n, j), View(p, n, s)[j])
    BY <1>6, <2>2, <2>3
  <2> QED
    BY <2>1, <2>2, <2>4 DEF InterfacesMatch
<1>8. Policies(p, n, s)
  <2>1. Policies(p, n, ns)
    BY <1>5, MatchingParts
  <2>2. ConnectedRoutes(s, View(p, n, s)) = ConnectedRoutes(ns, View(p, n, ns))
    BY <1>3, AlikeRoutes
  <2>3. /\ KernelRoutes(node, s) = KernelRoutes(node, ns) /\ ReadRules(node, s) = ReadRules(node, ns)
        /\ ReadNeighbors(node, s) = ReadNeighbors(node, ns)
        /\ ReadSysctls(node, s) = ReadSysctls(node, ns)
    BY <1>1 DEF KernelRoutes, ReadRules, ReadNeighbors, ReadSysctls
  <2> QED
    BY <2>1, <2>2, <2>3 DEF Policies, node
<1> QED
  BY <1>7, <1>8, MatchingParts DEF s

LEMMA SettingIsUnseen ==
  ASSUME NEW p, NEW n, NEW ns, Verified(p, n, ns), NEW c \in Changes(ns), c.do \in {"mtu", "mac"},
         ~Concerns(p.nodes[n], c)
  PROVE  NodeMatches(p, n, Present(p, n, Changed(ns, c)))
<1> DEFINE i == c.at
           node == p.nodes[n]
<1>1. c.do \notin OfPolicy
  BY DEF OfPolicy
<1>2. Formed(ns) /\ Placed(p, n) /\ Distinct(p, n) /\ i \in ExpectedNames(p, n)
  BY <1>1, ChangedIsExpected DEF Verified, Settled
<1>3. CASE c.do = "mtu"
  <2>1. Follows(node, i)
    BY <1>3, ConcernsAre
  <2>2. Expected(p, n, i).mtu = None
    BY <1>2, <2>1, ExpectedWidths
  <2>3. Varies(ns, c, "mtu", c.to)
    BY <1>2, <1>3, SettingsVary
  <2> QED
    BY <1>1, <2>2, <2>3, OpenSettingIsUnseen DEF Open
<1>4. CASE c.do = "mac"
  <2>1. i \notin DOMAIN node.macs
    BY <1>4, ConcernsAre
  <2>2. Expected(p, n, i).mac = None
    <3>1. CASE i = "lo"
      BY <3>1, ExpectedLoopback, LoopbackIs
    <3>2. CASE i # "lo"
      <4>1. Expected(p, n, i).mac = ExpectedMac(NodeOf(p, n), i)
        BY <3>2, ExpectedSettings
      <4> QED
        BY <2>1, <4>1 DEF ExpectedMac, NodeOf
    <3> QED
      BY <3>1, <3>2
  <2>3. Varies(ns, c, "mac", c.to)
    BY <1>2, <1>4, SettingsVary
  <2> QED
    BY <1>1, <2>2, <2>3, OpenSettingIsUnseen DEF Open
<1> QED
  BY <1>3, <1>4

LEMMA PortsAreOfBridges ==
  ASSUME NEW p, NEW n, NEW ns, Verified(p, n, ns), NEW c \in Changes(ns), c.do \in OfPorts
  PROVE  /\ c \in PortChanges(ns) /\ IsPort(ns, c.at) /\ p.nodes[n].kind = "bridge"
         /\ c.at \in ExpectedNames(p, n) /\ c.at # "lo"
<1> DEFINE i == c.at
           m == Expected(p, n, i).master
<1>1. c.do \notin OfPolicy
  BY DEF OfPorts, OfPolicy
<1>2. /\ i \in ExpectedNames(p, n) /\ Placed(p, n) /\ Distinct(p, n)
      /\ NodeMatches(p, n, Present(p, n, ns))
  BY <1>1, ChangedIsExpected DEF Verified
<1>3. c \in PortChanges(ns) /\ IsPort(ns, i)
  BY ChangesAre, LinkChangesAre, VethChangesAre, PolicyChangesAre, PortChangesAre
     DEF OfPorts, OfLinks, OfVeths, OfPolicy
<1>4. m # None /\ Expected(p, n, m).kind = "bridge"
  BY <1>2, <1>3, PortsArePlanned
<1>5. i # "lo"
  <2>1. Expected(p, n, "lo").master = None
    BY ExpectedLoopback, LoopbackIs
  <2> QED
    BY <1>4, <2>1
<1> QED
  BY <1>2, <1>3, <1>4, <1>5, ExpectedMasters

LEMMA TagIsUnseen ==
  ASSUME NEW p, NEW n, NEW ns, Verified(p, n, ns), NEW c \in Changes(ns), c.do \in {"vlan", "unvlan"},
         ~Concerns(p.nodes[n], c)
  PROVE  NodeMatches(p, n, Present(p, n, Changed(ns, c)))
<1>1. c.do \in OfPorts /\ c.do \notin OfPolicy
  BY DEF OfPorts, OfPolicy
<1>2. p.nodes[n].kind = "bridge" /\ Formed(ns) /\ Placed(p, n)
  BY <1>1, PortsAreOfBridges DEF Verified, Settled
<1>3. NodeOf(p, n).bridge.vlan_filtering = FALSE
  <2>1. NodeOf(p, n).bridge.vlan_filtering \in BOOLEAN
    BY <1>2 DEF Placed, NodeOf
  <2>2. ~NodeOf(p, n).bridge.vlan_filtering
    BY TaggingConcerns DEF NodeOf
  <2> QED
    BY <2>1, <2>2
<1>4. "vlans" \in Open
  BY DEF Open
<1>5. \E v : Varies(ns, c, "vlans", v)
  BY <1>2, SetsVary
<1>6. PICK v : Varies(ns, c, "vlans", v)
  BY <1>5
<1> QED
  BY <1>1, <1>3, <1>4, <1>6, OpenSettingIsUnseen

LEMMA FlagIsUnseen ==
  ASSUME NEW p, NEW n, NEW ns, Verified(p, n, ns), NEW c \in Changes(ns), c.do = "flag",
         ~Concerns(p.nodes[n], c)
  PROVE  NodeMatches(p, n, Present(p, n, Changed(ns, c)))
<1> DEFINE s == Changed(ns, c)
           i == c.at
           node == NodeOf(p, n)
           l == LinkOf(ns, i)
           m == LinkOf(s, i)
           f == c.to[1]
           v == c.to[2]
<1>1. c.do \in OfPorts /\ c.do \notin OfPolicy
  BY DEF OfPorts, OfPolicy
<1>2. /\ c \in PortChanges(ns) /\ IsPort(ns, i) /\ node.kind = "bridge" /\ i \in ExpectedNames(p, n)
      /\ i # "lo" /\ Formed(ns) /\ i \in DOMAIN ns.links /\ NodeMatches(p, n, Present(p, n, ns))
  BY <1>1, PortsAreOfBridges, ChangedIsExpected DEF Verified, Settled, NodeOf
<1>3. i \in DOMAIN node.bridge.ports => node.bridge.ports[i][f] = None
  BY ConcernsAre DEF NodeOf
<1>4. Varies(ns, c, "port", [ns.links[c.at].port EXCEPT ![c.to[1]] = c.to[2]]) /\ "port" \in Open
  BY <1>2, SetsVary DEF Open
<1>5. IsPort(s, i)
  BY <1>2, <1>4, VaryingIsAlike, AlikeTables
<1>6. ReadPort(ns, i) = l.port /\ ReadPort(s, i) = m.port
  BY <1>2, <1>5 DEF ReadPort, LinkOf
<1>7. m.port = [l.port EXCEPT ![f] = v]
  <2>1. m["port"] = [ns.links[c.at].port EXCEPT ![c.to[1]] = c.to[2]]
    BY <1>4, VariesIn
  <2>2. ns.links[c.at].port = l.port
    BY DEF LinkOf
  <2> HIDE DEF m, l
  <2> QED
    BY <2>1, <2>2
<1>8. PortSettings \subseteq DOMAIN l.port
  BY <1>2 DEF Formed, IsLink, LinkOf
<1>9. \A g \in PortSettings : Allows(Expected(p, n, i).port[g], l.port[g])
  BY <1>2, <1>6, SeenLinks
<1>10. Expected(p, n, i).port = ExpectedPort(node, i)
  BY <1>2, ExpectedSettings
<1>11. DOMAIN NoPort = PortSettings /\ \A g \in PortSettings : NoPort[g] = None
  BY DEF NoPort, PortSettings
<1>12. \A g \in PortSettings : g = f => Expected(p, n, i).port[g] = None
  <2> HIDE DEF f
  <2> QED
    BY <1>2, <1>3, <1>10, <1>11 DEF ExpectedPort
<1>13. \A g \in PortSettings : Allows(Expected(p, n, i).port[g], m.port[g])
  <2> HIDE DEF f, v, l, m, i
  <2>1. \A g \in PortSettings : g # f => m.port[g] = l.port[g]
    BY <1>7, <1>8
  <2> QED
    BY <1>9, <1>12, <2>1 DEF Allows
<1>14. \A g \in PortSettings : Allows(Expected(p, n, c.at).port[g], ReadPort(Changed(ns, c), c.at)[g])
  BY <1>6, <1>13
<1> QED
  BY <1>1, <1>4, <1>14, OpenSettingIsUnseen

LEMMA PolicyChangesMatch ==
  ASSUME NEW p, NEW n, NEW ns, Verified(p, n, ns), NEW s, s.links = ns.links,
         LET node == NodeOf(p, n) IN
         /\ RoutesMatch(node, ConnectedRoutes(ns, View(p, n, ns)) \cup KernelRoutes(node, s))
         /\ ReadRules(node, s) = node.rules
         /\ NeighborsMatch(node.neighbors, ReadNeighbors(node, s))
         /\ SysctlsMatch(node, ReadSysctls(node, s))
  PROVE  NodeMatches(p, n, Present(p, n, s))
<1>1. Alike(ns, s)
  BY DEF Alike, LinkOf
<1>2. ConnectedRoutes(s, View(p, n, s)) = ConnectedRoutes(ns, View(p, n, ns))
  BY <1>1, AlikeRoutes
<1>3. NodeMatches(p, n, Present(p, n, ns))
  BY DEF Verified
<1>4. InterfacesMatch(p, n, View(p, n, s))
  BY <1>3, SameLinksSameView, MatchingParts
<1>5. Policies(p, n, s)
  BY <1>2 DEF Policies
<1> QED
  BY <1>4, <1>5, MatchingParts

LEMMA PolicyIsUnseen ==
  ASSUME NEW p, NEW n, NEW ns, Verified(p, n, ns), IsFiniteSet(p.nodes[n].neighbors),
         NEW c \in Changes(ns), c.do \in OfPolicy, ~Concerns(p.nodes[n], c)
  PROVE  NodeMatches(p, n, Present(p, n, Changed(ns, c)))
<1> DEFINE s == Changed(ns, c)
           node == NodeOf(p, n)
           x == c.at
<1>1. /\ Formed(ns) /\ Placed(p, n) /\ Distinct(p, n) /\ Settled(p, n, ns)
      /\ NodeMatches(p, n, Present(p, n, ns))
  BY DEF Verified, Settled
<1>2. /\ RoutesMatch(node, ConnectedRoutes(ns, View(p, n, ns)) \cup KernelRoutes(node, ns))
      /\ ReadRules(node, ns) = node.rules
      /\ NeighborsMatch(node.neighbors, ReadNeighbors(node, ns))
      /\ SysctlsMatch(node, ReadSysctls(node, ns))
  BY <1>1, MatchingParts DEF Policies
<1>3. c \in PolicyChanges(ns)
  BY ChangesAre, LinkChangesAre, PortChangesAre, VethChangesAre DEF OfLinks, OfPorts, OfVeths, OfPolicy
<1>4. c.do \in {"route", "unroute", "age", "sysctl"}
  BY DEF Concerns, OfPolicy
<1>5. CASE c.do = "route"
  <2>1. Keeps(ns, s, {"routes"}) /\ s.routes = ns.routes \cup {x}
    BY <1>1, <1>5, PolicyIs
  <2>2. s.links = ns.links /\ s.rules = ns.rules /\ s.neighbors = ns.neighbors /\ s.sysctls = ns.sysctls
    BY <2>1 DEF Keeps
  <2>3. node.routing # None
    BY <1>5, ConcernsAre DEF NodeOf
  <2> HIDE DEF s, node, x
  <2>4. KernelRoutes(node, ns) \subseteq KernelRoutes(node, s)
    BY <2>1 DEF KernelRoutes
  <2>5. RoutesMatch(node, ConnectedRoutes(ns, View(p, n, ns)) \cup KernelRoutes(node, s))
    BY <1>2, <2>3, <2>4 DEF RoutesMatch
  <2>6. /\ ReadRules(node, s) = node.rules
        /\ NeighborsMatch(node.neighbors, ReadNeighbors(node, s))
        /\ SysctlsMatch(node, ReadSysctls(node, s))
    BY <1>2, <2>2 DEF ReadRules, ReadNeighbors, ReadSysctls
  <2> QED
    BY <2>2, <2>5, <2>6, PolicyChangesMatch DEF s, node
<1>6. CASE c.do = "unroute"
  <2>1. Keeps(ns, s, {"routes"}) /\ s.routes = ns.routes \ {x}
    BY <1>1, <1>6, PolicyIs
  <2>2. s.links = ns.links /\ s.rules = ns.rules /\ s.neighbors = ns.neighbors /\ s.sysctls = ns.sysctls
    BY <2>1 DEF Keeps
  <2>3. x \in ns.routes /\ x \notin Range(node.routes)
    BY <1>3, <1>6, PolicyChangesAre, ConcernsAre DEF NodeOf
  <2>4. node.routing # None /\ x = Learned
    BY <1>1, <2>3 DEF Settled, NodeOf
  <2>5. x \notin ExpectedRoutes(node)
    <3> DEFINE loop == RouteTo([v |-> 4, net |-> "loopback"], "lo", Main)
    <3>1. Learned.dst = [v |-> 4, net |-> "learned"] /\ Learned.dev = "lo"
      BY DEF Learned, RouteTo
    <3>2. loop.dst = [v |-> 4, net |-> "loopback"]
      BY DEF RouteTo
    <3>3. [v |-> 4, net |-> "loopback"] # [v |-> 4, net |-> "learned"]
      OBVIOUS
    <3>4. \A a, i, t : RouteTo(Net(a), i, t).dev = i
      BY DEF RouteTo
    <3>5. "lo" \notin Interfaces(node)
      BY <1>1 DEF Placed, NodeOf
    <3> HIDE DEF loop, node, x
    <3>6. x # loop
      BY <2>4, <3>1, <3>2, <3>3
    <3>7. ASSUME NEW i \in Interfaces(node), NEW a, x = RouteTo(Net(a), i, VrfTable(node, i)) PROVE FALSE
      <4>1. i = "lo"
        BY <2>4, <3>1, <3>4, <3>7
      <4> QED
        BY <3>5, <4>1
    <3> QED
      BY <2>3, <3>6, <3>7 DEF ExpectedRoutes, loop
  <2> HIDE DEF s, node, x
  <2>6. (KernelRoutes(node, ns)) \ {x} \subseteq KernelRoutes(node, s)
    BY <2>1 DEF KernelRoutes
  <2>7. RoutesMatch(node, ConnectedRoutes(ns, View(p, n, ns)) \cup KernelRoutes(node, s))
    BY <1>2, <2>4, <2>5, <2>6 DEF RoutesMatch
  <2>8. /\ ReadRules(node, s) = node.rules
        /\ NeighborsMatch(node.neighbors, ReadNeighbors(node, s))
        /\ SysctlsMatch(node, ReadSysctls(node, s))
    BY <1>2, <2>2 DEF ReadRules, ReadNeighbors, ReadSysctls
  <2> QED
    BY <2>2, <2>7, <2>8, PolicyChangesMatch DEF s, node
<1>7. CASE c.do = "sysctl"
  <2>1. Keeps(ns, s, {"sysctls"}) /\ s.sysctls = [ns.sysctls EXCEPT ![x] = c.to]
    BY <1>1, <1>7, PolicyIs
  <2>2. s.links = ns.links /\ s.rules = ns.rules /\ s.neighbors = ns.neighbors /\ s.routes = ns.routes
    BY <2>1 DEF Keeps
  <2>3. x \notin DOMAIN node.sysctls
    BY <1>7, ConcernsAre DEF NodeOf
  <2> HIDE DEF s, node, x
  <2>4. DOMAIN s.sysctls = DOMAIN ns.sysctls /\ \A k \in DOMAIN ns.sysctls : k # x => s.sysctls[k] = ns.sysctls[k]
    BY <2>1
  <2>5. \A k \in DOMAIN node.sysctls : ReadSysctls(node, s)[k] = ReadSysctls(node, ns)[k]
    BY <2>3, <2>4 DEF ReadSysctls
  <2>6. SysctlsMatch(node, ReadSysctls(node, s))
    BY <1>2, <2>5 DEF SysctlsMatch
  <2>7. /\ RoutesMatch(node, ConnectedRoutes(ns, View(p, n, ns)) \cup KernelRoutes(node, s))
        /\ ReadRules(node, s) = node.rules
        /\ NeighborsMatch(node.neighbors, ReadNeighbors(node, s))
    BY <1>2, <2>2 DEF ReadRules, ReadNeighbors, KernelRoutes
  <2> QED
    BY <2>2, <2>6, <2>7, PolicyChangesMatch DEF s, node
<1>8. CASE c.do = "age"
  <2> DEFINE y == [x EXCEPT !.state = c.to]
             N == ns.neighbors
             rest == N \ {x}
  <2>1. Keeps(ns, s, {"neighbors"}) /\ s.neighbors = rest \cup {y}
    BY <1>1, <1>8, PolicyIs
  <2>2. s.links = ns.links /\ s.rules = ns.rules /\ s.sysctls = ns.sysctls /\ s.routes = ns.routes
    BY <2>1 DEF Keeps
  <2>3. x \in N /\ c.to = "stale" /\ x.state \in Dynamic
    BY <1>3, <1>8, PolicyChangesAre, ConcernsAre
  <2>4. /\ N \subseteq node.neighbors /\ IsFiniteSet(node.neighbors)
        /\ \A b, d \in node.neighbors : Identity(b) = Identity(d) => b = d
        /\ \A b \in node.neighbors : {"dst", "dev", "lladdr", "state", "proxy"} \subseteq DOMAIN b
    BY <1>1 DEF Settled, Distinct, NodeOf
  <2>5. Identity(y) = Identity(x) /\ y.lladdr = x.lladdr /\ y.state = "stale"
    <3>1. y.dst = x.dst /\ y.dev = x.dev /\ y.proxy = x.proxy /\ y.lladdr = x.lladdr /\ y.state = "stale"
      BY <2>3, <2>4
    <3> HIDE DEF y
    <3> QED
      BY <3>1 DEF Identity
  <2> HIDE DEF y, N
  <2>6. y \notin rest
    BY <2>3, <2>4, <2>5
  <2>7. IsFiniteSet(N) /\ IsFiniteSet(rest)
    BY <2>4, FS_Subset
  <2>8. Cardinality(rest \cup {y}) = Cardinality(N)
    <3>1. Cardinality(rest) = Cardinality(N) - 1 /\ Cardinality(N) \in Nat
      BY <2>3, <2>7, FS_RemoveElement, FS_CardinalityType
    <3>2. Cardinality(rest \cup {y}) = Cardinality(rest) + 1
      BY <2>6, <2>7, FS_AddElement
    <3> QED
      BY <3>1, <3>2
  <2>9. \A b \in rest \cup {y} : Identity(b) \in {Identity(d) : d \in node.neighbors}
    BY <2>3, <2>4, <2>5
  <2>10. ReadNeighbors(node, s) = rest \cup {y}
    BY <2>1, <2>9 DEF ReadNeighbors
  <2>11. ReadNeighbors(node, ns) = N
    BY <2>4 DEF ReadNeighbors, N
  <2> HIDE DEF node, x, s
  <2>12. /\ Cardinality(node.neighbors) = Cardinality(N)
         /\ \A b \in node.neighbors : \E d \in N :
              /\ Identity(d) = Identity(b) /\ d.lladdr = b.lladdr
              /\ IF b.state \in Dynamic THEN d.state \in Healthy ELSE d.state = b.state
    BY <1>2, <2>11 DEF NeighborsMatch
  <2>13. ASSUME NEW b \in node.neighbors
         PROVE  \E d \in rest \cup {y} :
                  /\ Identity(d) = Identity(b) /\ d.lladdr = b.lladdr
                  /\ IF b.state \in Dynamic THEN d.state \in Healthy ELSE d.state = b.state
    <3>1. PICK d \in N : /\ Identity(d) = Identity(b) /\ d.lladdr = b.lladdr
                         /\ IF b.state \in Dynamic THEN d.state \in Healthy ELSE d.state = b.state
      BY <2>12
    <3>2. CASE d # x
      BY <3>1, <3>2
    <3>3. CASE d = x
      <4>1. b = x
        BY <2>4, <3>1, <3>3
      <4>2. y.state \in Healthy
        BY <2>5 DEF Healthy, Dynamic
      <4> QED
        BY <2>3, <2>5, <4>1, <4>2
    <3> QED
      BY <3>2, <3>3
  <2>14. NeighborsMatch(node.neighbors, ReadNeighbors(node, s))
    BY <2>8, <2>10, <2>12, <2>13 DEF NeighborsMatch
  <2>15. /\ RoutesMatch(node, ConnectedRoutes(ns, View(p, n, ns)) \cup KernelRoutes(node, s))
         /\ ReadRules(node, s) = node.rules /\ SysctlsMatch(node, ReadSysctls(node, s))
    BY <1>2, <2>2 DEF ReadRules, ReadSysctls, KernelRoutes
  <2> QED
    BY <2>2, <2>14, <2>15, PolicyChangesMatch DEF s, node
<1> QED
  BY <1>4, <1>5, <1>6, <1>7, <1>8

(* What the plan does not speak of may change and the node still matches.   *)
LEMMA OtherwiseIsUnseen ==
  ASSUME NEW p, NEW n, NEW ns, Verified(p, n, ns), IsFiniteSet(p.nodes[n].neighbors),
         NEW c \in Changes(ns), ~Concerns(p.nodes[n], c)
  PROVE  NodeMatches(p, n, Present(p, n, Changed(ns, c)))
<1>1. c.do \in {"mtu", "mac", "flag", "vlan", "unvlan", "route", "unroute", "age", "sysctl"}
  BY DEF Concerns
<1>2. c.do \in {"route", "unroute", "age", "sysctl"} => c.do \in OfPolicy
  BY DEF OfPolicy
<1> QED
  BY <1>1, <1>2, SettingIsUnseen, FlagIsUnseen, TagIsUnseen, PolicyIsUnseen

-----------------------------------------------------------------------------
(* From the node to the topology.                                           *)

LEMMA NodesOfPlan == Nodes = DOMAIN plan.nodes /\ plan.links = manifest.links
  BY DEF plan, Plan, Nodes

LEMMA VerifiedNodes ==
  ASSUME Builds, Known1, pc = "deployed", NEW n \in Nodes
  PROVE  Verified(plan, n, space[n]) /\ IsFiniteSet(plan.nodes[n].neighbors) /\ n # None
<1>1. /\ manifest \in Manifests /\ Accepted(manifest) /\ DOMAIN space = Nodes
      /\ Settled(plan, n, space[n])
  BY DEF Builds
<1>2. IsManifest(manifest)
  BY <1>1, ManifestsAssumption
<1>3. n \in DOMAIN manifest.nodes
  BY DEF Nodes
<1>4. Placed(plan, n) /\ Distinct(plan, n) /\ ExpectedNames(plan, n) \cap Ignored(plan.nodes[n]) = {}
  BY <1>1, <1>2, <1>3, PlansArePlaced, PlansAreDistinct, RuntimeNamesAreFree DEF plan
<1>5. NodeMatches(plan, n, inventory.namespaces[n])
  BY NodesOfPlan DEF Known1, Matches, NodeMatches
<1>6. inventory.namespaces[n] = Present(plan, n, space[n])
  BY <1>1, NodesOfPlan DEF inventory, Inventory
<1>7. IsFiniteSet(plan.nodes[n].neighbors)
  BY <1>1, <1>2, <1>3, PlansArePlanned DEF Planned, plan
<1>8. n # None
  BY <1>2, <1>3 DEF IsManifest
<1> QED
  BY <1>1, <1>4, <1>5, <1>6, <1>7, <1>8 DEF Verified

LEMMA RecordedIds ==
  ASSUME Builds, Known1, pc = "deployed"
  PROVE  /\ Matches(plan, inventory) /\ LinksMatch(plan, inventory)
         /\ recorded.status = "deployed"
         /\ \A e \in LinkEnds(plan) : recorded.owned[e].link_id = LinkId(inventory, e)
<1>1. Matches(plan, inventory) /\ LinksMatch(plan, inventory) /\ recorded = Recorded
  BY DEF Known1, Matches
<1>2. RecordedMatch(plan, inventory, recorded.owned)
  BY <1>1, VerifiedIsRecorded DEF Recorded, SnapshotFor, plan
<1>3. recorded.status = "deployed"
  BY <1>1 DEF Recorded, SnapshotFor
<1> QED
  BY <1>1, <1>2, <1>3 DEF RecordedMatch

(* The ends of links, and what they are known by.                           *)
LEMMA Identities ==
  ASSUME NEW p, NEW w, NEW r, NEW e, e[1] \in DOMAIN p.nodes, e[1] \in DOMAIN w,
         e[2] \in DOMAIN w[e[1]].links
  PROVE  LinkId(Inventory(p, w, r), e) = LinkOf(w[e[1]], e[2]).alias
<1> DEFINE inv == Inventory(p, w, r)
           m == e[1]
           i == e[2]
<1>1. inv.namespaces[m].interfaces = View(p, m, w[m])
  BY DEF Inventory, Present, View
<1>2. i \in DOMAIN View(p, m, w[m])
  BY DEF View
<1>3. View(p, m, w[m])[i].link_id = LinkOf(w[m], i).alias
  <2>1. Interface(p, m, w[m], i).link_id = LinkOf(w[m], i).alias
    BY InterfaceFields DEF LinkOf
  <2> QED
    BY <2>1 DEF View
<1> HIDE DEF inv
<1>4. LinkId(inv, e) = View(p, m, w[m])[i].link_id
  BY <1>1, <1>2 DEF LinkId
<1> QED
  BY <1>3, <1>4 DEF inv

LEMMA VethsAre ==
  ASSUME NEW p, NEW w, NEW r, NEW e
  PROVE  e \in Veths(Inventory(p, w, r)) <=>
           \E m \in DOMAIN p.nodes \cap DOMAIN w : \E i \in DOMAIN w[m].links :
             e = <<m, i>> /\ LinkOf(w[m], i).kind = "veth"
<1> DEFINE inv == Inventory(p, w, r)
<1>1. DOMAIN inv.namespaces = DOMAIN p.nodes
  BY DEF Inventory
<1>2. ASSUME NEW m \in DOMAIN p.nodes, m \notin DOMAIN w PROVE DOMAIN inv.namespaces[m].interfaces = {}
  <2>1. inv.namespaces[m] = Absent
    BY <1>2 DEF Inventory
  <2>2. Absent.interfaces = << >>
    BY DEF Absent
  <2> HIDE DEF inv
  <2> QED
    BY <2>1, <2>2
<1>3. ASSUME NEW m \in DOMAIN p.nodes, m \in DOMAIN w
      PROVE  /\ DOMAIN inv.namespaces[m].interfaces = DOMAIN w[m].links
             /\ \A i \in DOMAIN w[m].links : inv.namespaces[m].interfaces[i].kind = LinkOf(w[m], i).kind
  <2>1. inv.namespaces[m].interfaces = View(p, m, w[m])
    BY <1>3 DEF Inventory, Present, View
  <2>2. \A i : Interface(p, m, w[m], i).kind = LinkOf(w[m], i).kind
    BY InterfaceFields DEF LinkOf
  <2>3. /\ DOMAIN View(p, m, w[m]) = DOMAIN w[m].links
        /\ \A i \in DOMAIN w[m].links : View(p, m, w[m])[i].kind = LinkOf(w[m], i).kind
    BY <2>2 DEF View
  <2> HIDE DEF inv
  <2> QED
    BY <2>1, <2>3
<1> HIDE DEF inv
<1>4. e \in Veths(inv) <=>
        \E m \in DOMAIN p.nodes : \E i \in DOMAIN inv.namespaces[m].interfaces :
          e = <<m, i>> /\ inv.namespaces[m].interfaces[i].kind = "veth"
  BY <1>1 DEF Veths
<1>5. e \in Veths(inv) =>
           \E m \in DOMAIN p.nodes \cap DOMAIN w : \E i \in DOMAIN w[m].links :
             e = <<m, i>> /\ LinkOf(w[m], i).kind = "veth"
  BY <1>2, <1>3, <1>4
<1>6. ASSUME NEW m \in DOMAIN p.nodes \cap DOMAIN w, NEW i \in DOMAIN w[m].links,
             e = <<m, i>>, LinkOf(w[m], i).kind = "veth"
      PROVE  e \in Veths(inv)
  BY <1>3, <1>4, <1>6
<1> QED
  BY <1>5, <1>6 DEF inv

(* Links that kept their kind and their identity are still the plan's.      *)
SameIds(w) ==
  /\ DOMAIN w = DOMAIN space
  /\ \A m \in DOMAIN space :
       /\ DOMAIN w[m].links = DOMAIN space[m].links
       /\ \A i \in DOMAIN space[m].links : /\ LinkOf(w[m], i).kind = LinkOf(space[m], i).kind
                                           /\ LinkOf(w[m], i).alias = LinkOf(space[m], i).alias

LEMMA SameIdsMatch ==
  ASSUME DOMAIN space = Nodes, LinksMatch(plan, inventory), NEW w, SameIds(w), NEW r
  PROVE  LET inv == Inventory(plan, w, r) IN
         /\ LinksMatch(plan, inv)
         /\ \A e \in LinkEnds(plan) : LinkId(inv, e) = LinkId(inventory, e)
<1> DEFINE inv == Inventory(plan, w, r)
           was == Inventory(plan, space, root)
<1>1. inventory = was
  BY DEF inventory
<1>2. \A e : e \in Veths(inv) <=> e \in Veths(was)
  <2>1. SUFFICES ASSUME NEW e
        PROVE  (\E m \in DOMAIN plan.nodes \cap DOMAIN w : \E i \in DOMAIN w[m].links :
                  e = <<m, i>> /\ LinkOf(w[m], i).kind = "veth")
               <=> \E m \in DOMAIN plan.nodes \cap DOMAIN space : \E i \in DOMAIN space[m].links :
                     e = <<m, i>> /\ LinkOf(space[m], i).kind = "veth"
    BY VethsAre
  <2> QED
    BY DEF SameIds
<1>3. ASSUME NEW e \in Veths(was) PROVE LinkId(inv, e) = LinkId(was, e)
  <2>1. PICK m \in DOMAIN plan.nodes \cap DOMAIN space : \E i \in DOMAIN space[m].links : e = <<m, i>>
    BY VethsAre
  <2>2. PICK i \in DOMAIN space[m].links : e = <<m, i>>
    BY <2>1
  <2>3. /\ m \in DOMAIN plan.nodes /\ m \in DOMAIN w /\ i \in DOMAIN w[m].links
        /\ LinkOf(w[m], i).alias = LinkOf(space[m], i).alias
    BY DEF SameIds
  <2>4. e[1] = m /\ e[2] = i
    BY <2>2
  <2>5. LinkId(was, e) = LinkOf(space[m], i).alias
    BY <2>3, <2>4, Identities
  <2>6. LinkId(inv, e) = LinkOf(w[m], i).alias
    BY <2>3, <2>4, Identities
  <2> QED
    BY <2>3, <2>5, <2>6
<1> HIDE DEF inv, was
<1>4. \A id : Group(inv, id) = Group(was, id)
  BY <1>2, <1>3 DEF Group
<1>5. ASSUME NEW k \in DOMAIN plan.links PROVE EndsOf(plan.links[k]) \subseteq Veths(was)
  BY <1>1 DEF LinksMatch, Group
<1>6. \A k \in DOMAIN plan.links : /\ LinkId(inv, plan.links[k].left) = LinkId(was, plan.links[k].left)
                                   /\ LinkId(inv, plan.links[k].right) = LinkId(was, plan.links[k].right)
  BY <1>3, <1>5 DEF EndsOf
<1>7. LinksMatch(plan, inv)
  <2>1. LinksMatch(plan, was)
    BY <1>1
  <2> QED
    BY <1>2, <1>3, <1>4, <1>6, <2>1 DEF LinksMatch
<1>8. \A e \in LinkEnds(plan) : LinkId(inv, e) = LinkId(was, e)
  BY <1>3, <1>5 DEF LinkEnds, Range
<1> QED
  BY <1>1, <1>7, <1>8 DEF inv

(* An end known by something else is noticed, at both ends.                 *)
LEMMA OtherIdIsSeen ==
  ASSUME Builds, Known1, pc = "deployed", NEW w, NEW r, NEW k \in DOMAIN plan.links,
         NEW e \in EndsOf(plan.links[k]), LinkId(Inventory(plan, w, r), e) # LinkId(inventory, e),
         NEW some
  PROVE  LET inv == Inventory(plan, w, r) IN
         /\ Status(plan, inv, recorded) # "deployed"
         /\ e[1] \in Impacted(plan, some \cup StateDifferences(plan, inv, recorded))
<1> DEFINE inv == Inventory(plan, w, r)
           left == plan.links[k].left
           d == InterfaceDifference(left[1], left[2], "link_id")
<1>1. e \in LinkEnds(plan)
  BY DEF LinkEnds, Range
<1>2. recorded.owned[e].link_id # LinkId(inv, e) /\ recorded.status = "deployed"
  BY <1>1, RecordedIds
<1> HIDE DEF inv
<1>3. Status(plan, inv, recorded) # "deployed"
  BY <1>1, <1>2 DEF Status, RecordedMatch
<1>4. d \in StateDifferences(plan, inv, recorded)
  BY <1>2 DEF StateDifferences
<1>5. left = <<left[1], left[2]>>
  <2>1. IsManifest(manifest)
    BY ManifestsAssumption DEF Builds
  <2>2. plan.links[k] \in Range(manifest.links)
    BY NodesOfPlan DEF Range
  <2> QED
    BY <2>1, <2>2 DEF IsManifest, EndsOf
<1>6. d.property = "link_id" /\ <<d.node, d.interface>> = left
  <2>1. d.property = "link_id" /\ d.node = left[1] /\ d.interface = left[2]
    BY DEF InterfaceDifference
  <2> HIDE DEF d, left
  <2> QED
    BY <1>5, <2>1 DEF left
<1> DEFINE all == some \cup StateDifferences(plan, inv, recorded)
<1>7. d \in all
  BY <1>4
<1> HIDE DEF d, all
<1>8. k \in {l \in DOMAIN plan.links : \E x \in all :
               x.property \in {"link", "link_id"} /\ <<x.node, x.interface>> = plan.links[l].left}
  BY <1>6, <1>7 DEF left
<1>9. e[1] \in Impacted(plan, all)
  BY <1>8 DEF Impacted
<1> QED
  BY <1>3, <1>9 DEF inv, all

(* What inspect says of a change to a node, and whom it blames.             *)
Found(inv) == LiveDifferences(plan, inv) \cup StateDifferences(plan, inv, recorded)
Seen(inv, n, c) ==
  /\ Status(plan, inv, recorded) # "deployed" <=> Concerns(plan.nodes[n], c)
  /\ Concerns(plan.nodes[n], c) /\ c.do # "options" => n \in Impacted(plan, Found(inv))

LEMMA BlamedNodes ==
  ASSUME NEW inv, NEW d \in Found(inv), d.node # None
  PROVE  d.node \in Impacted(plan, Found(inv))
  BY DEF Impacted

LEMMA NodeDifferencesAreOfNode ==
  ASSUME NEW p, NEW n, NEW seen, NEW d \in NodeDifferences(p, n, seen)
  PROVE  d.node = n
<1>1. \A i, f : InterfaceDifference(n, i, f).node = n /\ NodeDifference(n, f).node = n
  BY DEF InterfaceDifference, NodeDifference
<1>2. \A interfaces : \A x \in InterfaceDifferences(p, n, interfaces) : x.node = n
  BY <1>1 DEF InterfaceDifferences
<1>3. CASE ~seen.exists
  BY <1>1, <1>3 DEF NodeDifferences
<1>4. CASE seen.exists
  BY <1>1, <1>2, <1>4 DEF NodeDifferences
<1> QED
  BY <1>3, <1>4

LEMMA BlamedNode ==
  ASSUME NEW inv, NEW n \in DOMAIN plan.nodes, n # None,
         NodeDifferences(plan, n, inv.namespaces[n]) # {}
  PROVE  n \in Impacted(plan, Found(inv))
<1>1. PICK d : d \in NodeDifferences(plan, n, inv.namespaces[n])
  OBVIOUS
<1>2. d.node = n
  BY <1>1, NodeDifferencesAreOfNode
<1>3. d \in LiveDifferences(plan, inv)
  BY <1>1 DEF LiveDifferences
<1>4. d \in Found(inv)
  BY <1>3 DEF Found
<1> QED
  BY <1>2, <1>4, BlamedNodes

LEMMA DeployedNeedsNodes ==
  ASSUME NEW inv, Status(plan, inv, recorded) = "deployed"
  PROVE  /\ Matches(plan, inv) /\ inv.root = {}
         /\ \A n \in DOMAIN plan.nodes : inv.namespaces[n].exists /\ NodeMatches(plan, n, inv.namespaces[n])
<1>1. Matches(plan, inv)
  BY DEF Status
<1> QED
  BY <1>1 DEF Matches, NodeMatches

LEMMA MismatchIsDifference ==
  ASSUME NEW inv, NEW n \in DOMAIN plan.nodes, AllLegible(plan, inv), Apart(plan, inv),
         ~NodeMatches(plan, n, inv.namespaces[n])
  PROVE  NodeDifferences(plan, n, inv.namespaces[n]) # {}
<1> SUFFICES ASSUME NodeDifferences(plan, n, inv.namespaces[n]) = {} PROVE FALSE
  OBVIOUS
<1> DEFINE node == plan.nodes[n]
           seen == inv.namespaces[n]
<1>1. /\ InterfacesMatch(plan, n, seen.interfaces)
      /\ RoutesMatch(node, seen.routes)
      /\ seen.rules = node.rules
      /\ NeighborsMatch(node.neighbors, seen.neighbors)
      /\ SysctlsMatch(node, seen.sysctls)
  BY NodeMismatchIsTold, Zenon
<1> QED
  BY <1>1 DEF NodeMatches

LEMMA PresentExists ==
  ASSUME NEW p, NEW n, NEW ns
  PROVE  Present(p, n, ns).exists
  BY DEF Present

(* What the plan does not speak of leaves the links their identities.       *)
LEMMA OtherwiseIsAlike ==
  ASSUME NEW p, NEW n, NEW ns, Verified(p, n, ns), NEW c \in Changes(ns), ~Concerns(p.nodes[n], c)
  PROVE  Alike(ns, Changed(ns, c))
<1>1. c.do \in {"mtu", "mac", "flag", "vlan", "unvlan", "route", "unroute", "age", "sysctl"}
  BY DEF Concerns
<1>2. Formed(ns)
  BY DEF Verified, Settled
<1>3. CASE c.do \in {"route", "unroute", "age", "sysctl"}
  <2>1. c.do \in OfPolicy
    BY <1>3 DEF OfPolicy
  <2>2. Changed(ns, c).links = ns.links
    BY <1>2, <1>3, <2>1, PolicyIs DEF Keeps
  <2> QED
    BY <2>2 DEF Alike, LinkOf
<1>4. CASE c.do \in {"mtu", "mac", "flag", "vlan", "unvlan"}
  <2>1. \/ \E v : Varies(ns, c, "mtu", v)
        \/ \E v : Varies(ns, c, "mac", v)
        \/ \E v : Varies(ns, c, "port", v)
        \/ \E v : Varies(ns, c, "vlans", v)
    BY <1>2, <1>4, SettingsVary, SetsVary
  <2>2. {"mtu", "mac", "port", "vlans"} \subseteq Open
    BY DEF Open
  <2> QED
    BY <2>1, <2>2, VaryingIsAlike
<1> QED
  BY <1>1, <1>3, <1>4

(* A namespace is changed.                                                  *)
LEMMA ChangeIsSeen ==
  ASSUME Builds, Known1, pc = "deployed", NEW n \in Nodes, NEW c \in Changes(space[n]),
         NEW w, DOMAIN w = DOMAIN space, w[n] = Changed(space[n], c),
         \A m \in DOMAIN space : m # n => w[m] = space[m]
  PROVE  Seen(Inventory(plan, w, root), n, c)
<1> DEFINE inv == Inventory(plan, w, root)
           node == plan.nodes[n]
<1>1. /\ DOMAIN space = Nodes /\ DOMAIN w = Nodes /\ Nodes = DOMAIN plan.nodes
      /\ w[n] = Changed(space[n], c) /\ \A m \in Nodes : m # n => w[m] = space[m]
  BY NodesOfPlan DEF Builds
<1>2. \A m \in Nodes : /\ inv.namespaces[m] = Present(plan, m, w[m])
                       /\ inventory.namespaces[m] = Present(plan, m, space[m])
  BY <1>1 DEF Inventory, inventory
<1>3. Verified(plan, n, space[n]) /\ IsFiniteSet(node.neighbors) /\ n # None
  BY VerifiedNodes
<1>4. /\ Matches(plan, inventory) /\ LinksMatch(plan, inventory) /\ recorded.status = "deployed"
      /\ \A e \in LinkEnds(plan) : recorded.owned[e].link_id = LinkId(inventory, e)
  BY RecordedIds
<1>5. CASE Concerns(node, c) /\ c.do # "alias"
  <2>1. ~NodeMatches(plan, n, inv.namespaces[n])
    <3>1. inv.namespaces[n] = Present(plan, n, Changed(space[n], c))
      BY <1>1, <1>2
    <3>2. ~NodeMatches(plan, n, Present(plan, n, Changed(space[n], c)))
      BY <1>3, <1>5, ConcernedIsSeen
    <3> HIDE DEF inv
    <3> QED
      BY <3>1, <3>2
  <2>2. Status(plan, inv, recorded) # "deployed"
    BY <1>1, <2>1, DeployedNeedsNodes
  <2>3. ASSUME c.do # "options" PROVE n \in Impacted(plan, Found(inv))
    <3>1. ASSUME NEW m \in DOMAIN w PROVE Remains(space[m], w[m])
      <4>1. Formed(space[m]) /\ \A j \in DOMAIN space[m].links : Tidy(space[m].links[j].vlans)
        BY <1>1, <3>1 DEF Builds, Settled, LinkOrigin
      <4>2. CASE m = n
        BY <1>1, <2>3, <4>1, <4>2, ChangeRemains
      <4>3. CASE m # n
        BY <1>1, <4>1, <4>3 DEF Remains
      <4> QED
        BY <4>2, <4>3
    <3>2. AllLegible(plan, inv) /\ Apart(plan, inv)
      BY <1>1, <3>1, ChangedIsLegible
    <3>3. NodeDifferences(plan, n, inv.namespaces[n]) # {}
      <4> HIDE DEF inv
      <4> QED
        BY <1>1, <2>1, <3>2, MismatchIsDifference
    <3> QED
      BY <1>1, <1>3, <3>3, BlamedNode
  <2> QED
    BY <1>5, <2>2, <2>3 DEF Seen
<1>6. CASE c.do = "alias"
  <2> DEFINE i == c.at
             e == <<n, i>>
  <2>1. Formed(space[n])
    BY <1>3 DEF Verified, Settled
  <2>2. Varies(space[n], c, "alias", c.to)
    BY <1>6, <2>1, SettingsVary
  <2>3. /\ DOMAIN w[n].links = DOMAIN space[n].links
        /\ LinkOf(w[n], i)["alias"] # LinkOf(space[n], i)["alias"]
    <3>1. DOMAIN w[n].links = DOMAIN space[n].links
      BY <1>1, <2>2 DEF Varies, Touches
    <3>2. /\ LinkOf(Changed(space[n], c), i)["alias"] = c.to /\ c.to # LinkOf(space[n], i)["alias"]
      BY <2>2, VariesIn
    <3> HIDE DEF i
    <3> QED
      BY <1>1, <3>1, <3>2
  <2>4. c \in VethChanges(space[n])
    BY <1>6, ChangesAre, LinkChangesAre, PortChangesAre, PolicyChangesAre DEF OfLinks, OfPorts, OfPolicy
  <2>5. i \in DOMAIN space[n].links /\ space[n].links[i].kind = "veth"
    BY <2>4, VethChangesAre
  <2>6. e[1] = n /\ e[2] = i
    OBVIOUS
  <2>7. LinkId(inv, e) = LinkOf(w[n], i).alias /\ LinkId(inventory, e) = LinkOf(space[n], i).alias
    <3>1. /\ n \in DOMAIN plan.nodes /\ n \in DOMAIN w /\ n \in DOMAIN space
          /\ i \in DOMAIN w[n].links /\ i \in DOMAIN space[n].links
      BY <1>1, <2>3, <2>5
    <3>2. inventory = Inventory(plan, space, root)
      BY DEF inventory
    <3> HIDE DEF e, i
    <3>3. LinkId(Inventory(plan, w, root), e) = LinkOf(w[n], i).alias
      BY <2>6, <3>1, Identities
    <3>4. LinkId(Inventory(plan, space, root), e) = LinkOf(space[n], i).alias
      BY <2>6, <3>1, Identities
    <3> QED
      BY <3>2, <3>3, <3>4
  <2>8. PICK k \in DOMAIN plan.links : e \in EndsOf(plan.links[k])
    <3>1. i \in ExpectedNames(plan, n) /\ Placed(plan, n) /\ NodeMatches(plan, n, Present(plan, n, space[n]))
      BY <1>3, <1>6, ChangedIsExpected DEF Verified, OfPolicy
    <3>2. Expected(plan, n, i).kind = LinkOf(space[n], i).kind
      BY <3>1, SeenLinks
    <3>3. i \in Linked(plan.links, n)
      BY <2>5, <3>1, <3>2, ExpectedKinds DEF LinkOf
    <3>4. PICK k \in DOMAIN plan.links : LinksAt(plan.links, n, i) = {k}
      BY <3>1, <3>3 DEF Placed
    <3> QED
      BY <3>4 DEF LinksAt
  <2>9. LinkId(inv, e) # LinkId(inventory, e)
    <3> HIDE DEF e, i, inv
    <3> QED
      BY <2>3, <2>7
  <2>10. /\ Status(plan, inv, recorded) # "deployed"
         /\ e[1] \in Impacted(plan, LiveDifferences(plan, inv) \cup StateDifferences(plan, inv, recorded))
    BY <2>8, <2>9, OtherIdIsSeen
  <2>11. Concerns(node, c)
    BY <1>6 DEF Concerns
  <2> QED
    BY <2>6, <2>10, <2>11 DEF Seen, Found
<1>7. CASE ~Concerns(node, c)
  <2>1. NodeMatches(plan, n, inv.namespaces[n])
    <3>1. inv.namespaces[n] = Present(plan, n, Changed(space[n], c))
      BY <1>1, <1>2
    <3>2. NodeMatches(plan, n, Present(plan, n, Changed(space[n], c)))
      BY <1>3, <1>7, OtherwiseIsUnseen
    <3> HIDE DEF inv
    <3> QED
      BY <3>1, <3>2
  <2>2. \A m \in Nodes : NodeMatches(plan, m, inv.namespaces[m])
    <3>1. \A m \in Nodes : NodeMatches(plan, m, inventory.namespaces[m])
      BY <1>1, <1>4 DEF Matches, NodeMatches
    <3> QED
      BY <1>1, <1>2, <2>1, <3>1
  <2>3. SameIds(w)
    <3>1. Alike(space[n], w[n])
      BY <1>1, <1>3, <1>7, OtherwiseIsAlike
    <3>2. ASSUME NEW m \in DOMAIN space
          PROVE  /\ DOMAIN w[m].links = DOMAIN space[m].links
                 /\ \A i \in DOMAIN space[m].links : /\ LinkOf(w[m], i).kind = LinkOf(space[m], i).kind
                                                     /\ LinkOf(w[m], i).alias = LinkOf(space[m], i).alias
      <4>1. CASE m = n
        BY <3>1, <4>1, AlikeFields DEF Alike
      <4>2. CASE m # n
        BY <1>1, <4>2
      <4> QED
        BY <4>1, <4>2
    <3> QED
      BY <1>1, <3>2 DEF SameIds
  <2>4. /\ LinksMatch(plan, inv)
        /\ \A e \in LinkEnds(plan) : LinkId(inv, e) = LinkId(inventory, e)
    BY <1>1, <1>4, <2>3, SameIdsMatch
  <2>5. ASSUME NEW m \in Nodes PROVE inv.namespaces[m].exists
    <3>1. inv.namespaces[m] = Present(plan, m, w[m])
      BY <1>2
    <3> HIDE DEF inv
    <3> QED
      BY <3>1, PresentExists
  <2>6. inv.root = {}
    BY <1>4 DEF Matches, inventory, Inventory
  <2>7. DOMAIN inv.namespaces = Nodes
    BY <1>1 DEF Inventory
  <2> HIDE DEF inv
  <2>8. Matches(plan, inv)
    BY <1>1, <2>2, <2>4, <2>5, <2>6 DEF Matches, NodeMatches
  <2>9. RecordedMatch(plan, inv, recorded.owned)
    BY <1>4, <2>4 DEF RecordedMatch
  <2>10. ~IsAbsent(inv)
    BY <2>5, <2>7 DEF IsAbsent
  <2>11. Status(plan, inv, recorded) = "deployed"
    BY <1>4, <2>8, <2>9, <2>10 DEF Status
  <2>12. Seen(inv, n, c)
    BY <1>7, <2>11 DEF Seen
  <2> QED
    BY <2>12 DEF inv
<1> QED
  BY <1>5, <1>6, <1>7

(* What concerns the plan, and what always does.                            *)
LEMMA ConcernsIsBoolean ==
  ASSUME NEW p, NEW n, NEW ns, Verified(p, n, ns), NEW c \in Changes(ns)
  PROVE  Concerns(p.nodes[n], c) \in BOOLEAN
<1>1. CASE c.do \in {"vlan", "unvlan"}
  <2>1. c.do \in OfPorts
    BY <1>1 DEF OfPorts
  <2>2. p.nodes[n].kind = "bridge"
    BY <2>1, PortsAreOfBridges
  <2>3. p.nodes[n].bridge.vlan_filtering \in BOOLEAN
    BY <2>2 DEF Verified, Placed
  <2> QED
    BY <1>1, <2>3 DEF Concerns
<1> DEFINE node == p.nodes[n]
<1> HIDE DEF node, Follows, Dynamic
<1>2. CASE c.do = "mtu"
  BY Zenon, <1>2 DEF Concerns
<1>3. CASE c.do = "mac"
  <2>1. CASE c.at \in DOMAIN node.macs
    BY <1>3, <2>1 DEF Concerns
  <2>2. CASE ~(c.at \in DOMAIN node.macs)
    BY <1>3, <2>2 DEF Concerns
  <2> QED
    BY <2>1, <2>2
<1>4. CASE c.do = "flag"
  BY Zenon, <1>4 DEF Concerns
<1>5. CASE c.do = "route"
  BY Zenon, <1>5 DEF Concerns
<1>6. CASE c.do = "unroute"
  <2>1. CASE c.at \in Range(node.routes)
    BY <1>6, <2>1 DEF Concerns
  <2>2. CASE ~(c.at \in Range(node.routes))
    BY <1>6, <2>2 DEF Concerns
  <2> QED
    BY <2>1, <2>2
<1>7. CASE c.do = "age"
  BY Zenon, <1>7 DEF Concerns
<1>8. CASE c.do = "sysctl"
  <2>1. CASE c.at \in DOMAIN node.sysctls
    BY <1>8, <2>1 DEF Concerns
  <2>2. CASE ~(c.at \in DOMAIN node.sysctls)
    BY <1>8, <2>2 DEF Concerns
  <2> QED
    BY <2>1, <2>2
<1>9. CASE c.do \notin {"vlan", "unvlan", "mtu", "mac", "flag", "route", "unroute", "age", "sysctl"}
  BY <1>9 DEF Concerns
<1> QED
  BY <1>1, <1>2, <1>3, <1>4, <1>5, <1>6, <1>7, <1>8, <1>9

LEMMA RestConcerns ==
  ASSUME NEW node, NEW c, c.do \in {"lose", "replace", "strand"}
  PROVE  Concerns(node, c) /\ c.do # "options"
  BY DEF Concerns

(* A link of the plan has its ends in namespaces of nodes.                  *)
LEMMA EndsAreSeen ==
  ASSUME Builds, Known1, pc = "deployed", NEW k \in DOMAIN plan.links, NEW e \in EndsOf(plan.links[k])
  PROVE  \E n \in Nodes : \E i \in DOMAIN space[n].links : e = <<n, i>>
<1>1. LinksMatch(plan, inventory)
  BY RecordedIds
<1>2. e \in Veths(inventory)
  BY <1>1 DEF LinksMatch, Group
<1>3. DOMAIN space = Nodes
  BY DEF Builds
<1>4. inventory = Inventory(plan, space, root)
  BY DEF inventory
<1>5. \E m \in DOMAIN plan.nodes \cap DOMAIN space : \E i \in DOMAIN space[m].links :
        e = <<m, i>> /\ LinkOf(space[m], i).kind = "veth"
  BY <1>2, <1>4, VethsAre
<1> QED
  BY <1>3, <1>5

(* A namespace is lost.                                                     *)
LEMMA LoseIsSeen ==
  ASSUME Builds, Known1, pc = "deployed", NEW n \in Nodes, NEW w, n \notin DOMAIN w,
         NEW c, c.do = "lose"
  PROVE  Seen(Inventory(plan, w, root), n, c)
<1> DEFINE inv == Inventory(plan, w, root)
<1>1. n \in DOMAIN plan.nodes /\ n # None
  BY NodesOfPlan, VerifiedNodes
<1>2. inv.namespaces[n] = Absent
  BY <1>1 DEF Inventory
<1>3. ~Absent.exists
  BY DEF Absent
<1> HIDE DEF inv
<1>4. ~inv.namespaces[n].exists
  BY <1>2, <1>3
<1>5. Status(plan, inv, recorded) # "deployed"
  BY <1>1, <1>4, DeployedNeedsNodes
<1>6. NodeDifferences(plan, n, inv.namespaces[n]) # {}
  BY <1>4 DEF NodeDifferences
<1>7. n \in Impacted(plan, Found(inv))
  BY <1>1, <1>6, BlamedNode
<1>8. Seen(inv, n, c)
  BY <1>5, <1>7, RestConcerns DEF Seen
<1> QED
  BY <1>8 DEF inv

(* A pair is replaced.                                                      *)
LEMMA ReplaceIsSeen ==
  ASSUME Builds, Known1, pc = "deployed", NEW k \in DOMAIN plan.links, NEW w, DOMAIN w = Nodes,
         \A n \in Nodes : w[n] = [space[n] EXCEPT !.links = [i \in DOMAIN @ |->
            IF <<n, i>> \in EndsOf(plan.links[k]) THEN [@[i] EXCEPT !.alias = 0] ELSE @[i]]],
         NEW c, c.do = "replace"
  PROVE  Seen(Inventory(plan, w, root), plan.links[k].left[1], c)
<1> DEFINE e == plan.links[k].left
           inv == Inventory(plan, w, root)
<1>1. e \in EndsOf(plan.links[k])
  BY DEF EndsOf
<1>2. PICK n \in Nodes : \E i \in DOMAIN space[n].links : e = <<n, i>>
  BY <1>1, EndsAreSeen
<1>3. PICK i \in DOMAIN space[n].links : e = <<n, i>>
  BY <1>2
<1>4. e[1] = n /\ e[2] = i
  BY <1>3
<1>5. /\ Nodes = DOMAIN plan.nodes /\ DOMAIN space = Nodes
      /\ Settled(plan, n, space[n]) /\ Placed(plan, n)
  BY NodesOfPlan, VerifiedNodes DEF Builds, Verified
<1>6. Formed(space[n]) /\ IsLink(space[n].links[i]) /\ LinkOrigin(plan, n, i, space[n].links[i])
  BY <1>5 DEF Settled, Formed
<1>7. i \in DOMAIN w[n].links /\ LinkOf(w[n], i).alias = 0
  <2>1. w[n].links = [j \in DOMAIN space[n].links |->
          IF <<n, j>> \in EndsOf(plan.links[k]) THEN [space[n].links[j] EXCEPT !.alias = 0]
          ELSE space[n].links[j]]
    BY <1>6 DEF Formed, NsFields
  <2>2. w[n].links[i] = [space[n].links[i] EXCEPT !.alias = 0]
    BY <1>1, <1>3, <2>1
  <2>3. "alias" \in DOMAIN space[n].links[i]
    BY <1>6 DEF IsLink, LinkFields
  <2> QED
    BY <2>1, <2>2, <2>3 DEF LinkOf
<1>8. LinkId(Inventory(plan, space, root), e) = LinkOf(space[n], i).alias
  <2> HIDE DEF e
  <2> QED
    BY <1>4, <1>5, Identities
<1>9. LinkId(inv, e) = 0
  <2> HIDE DEF e
  <2> QED
    BY <1>4, <1>5, <1>7, Identities
<1>10. LinkId(inventory, e) # 0
  <2>1. LinkId(inventory, e) = space[n].links[i].alias
    BY <1>8 DEF inventory, LinkOf
  <2>2. LinkId(inventory, e) # None
    BY RecordedIds DEF LinksMatch
  <2>3. space[n].links[i].alias \in DOMAIN plan.links
    BY <1>6, <2>1, <2>2 DEF LinkOrigin, LinksAt
  <2>4. DOMAIN plan.links = 1 .. Len(plan.links)
    BY <1>5 DEF Placed
  <2> HIDE DEF e
  <2> QED
    BY <2>1, <2>3, <2>4
<1> HIDE DEF e, inv
<1>11. LinkId(inv, e) # LinkId(inventory, e)
  BY <1>9, <1>10
<1>12. /\ Status(plan, inv, recorded) # "deployed"
       /\ e[1] \in Impacted(plan, LiveDifferences(plan, inv) \cup StateDifferences(plan, inv, recorded))
  BY <1>1, <1>11, OtherIdIsSeen DEF inv
<1>13. Seen(inv, e[1], c)
  BY <1>12, RestConcerns DEF Seen, Found
<1> QED
  BY <1>13 DEF inv, e

(* A half of a pair is stranded.                                            *)
LEMMA StrandIsSeen ==
  ASSUME Builds, Known1, pc = "deployed", NEW k \in DOMAIN plan.links,
         NEW e \in EndsOf(plan.links[k]), NEW c, c.do = "strand"
  PROVE  Seen(Inventory(plan, space, {e}), e[1], c)
<1> DEFINE inv == Inventory(plan, space, {e})
           d == InterfaceDifference(e[1], e[2], "root_temporary.present")
<1>1. inv.root = {e}
  BY DEF Inventory
<1>2. e[1] \in Nodes
  BY EndsAreSeen
<1>3. e[1] # None
  BY <1>2, VerifiedNodes
<1> HIDE DEF inv
<1>4. Status(plan, inv, recorded) # "deployed"
  <2>1. inv.root # {}
    BY <1>1
  <2> QED
    BY <2>1, DeployedNeedsNodes
<1>5. d \in Found(inv)
  BY <1>1 DEF Found, LiveDifferences
<1>6. d.node = e[1]
  BY DEF InterfaceDifference
<1> HIDE DEF d
<1>7. e[1] \in Impacted(plan, Found(inv))
  BY <1>3, <1>5, <1>6, BlamedNodes
<1>8. Seen(inv, e[1], c)
  BY <1>4, <1>7, RestConcerns DEF Seen
<1> QED
  BY <1>8 DEF inv

-----------------------------------------------------------------------------
(* What each block of configure_node keeps: folds of requests (Folding).    *)
VethFold    == INSTANCE Folding WITH Good <- Sound,
                 Op <- LAMBDA c, a, x, s : VethEnd(c.p.links, a, x[2], s)
PairFold    == INSTANCE Folding WITH Good <- Sound,
                 Op <- LAMBDA c, a, x, s :
                   FoldSet(LAMBDA e, t : VethEnd(c.p.links, x, e[2], t), s,
                           {e \in EndsOf(c.p.links[x]) : e[1] = c.n})
MacFold     == INSTANCE Folding WITH Good <- Sound,
                 Op <- LAMBDA c, a, x, s : SetMac(Require(s, x), x, c.p.nodes[c.n].macs[x])
IndexFold   == INSTANCE Folding WITH Good <- Sound, Op <- LAMBDA c, a, x, s : Require(s, x)
EnslaveFold == INSTANCE Folding WITH Good <- Sound, Op <- LAMBDA c, a, x, s : Enslave(x, a, s)
BondFold    == INSTANCE Folding WITH Good <- Sound,
                 Op <- LAMBDA c, a, x, s : AddBond(c.p, c.n, x, s)
VrfFold     == INSTANCE Folding WITH Good <- Sound,
                 Op <- LAMBDA c, a, x, s :
                   AddLink(s, x, "vrf", [link |-> None, table |-> c.p.nodes[c.n].devices[x].table])
DeviceFold  == INSTANCE Folding WITH Good <- Sound,
                 Op <- LAMBDA c, a, x, s : AddDevice(c.p, c.n, x, s)

LEMMA PlannedIsFinite ==
  ASSUME NEW p, NEW n, Planned(p, n)
  PROVE  LET node == p.nodes[n] IN
         /\ IsFiniteSet(DOMAIN p.links) /\ IsFiniteSet(Linked(p.links, n))
         /\ IsFiniteSet(DOMAIN node.interfaces) /\ IsFiniteSet(DOMAIN node.devices)
         /\ IsFiniteSet(node.neighbors) /\ IsFiniteSet(node.rules)
         /\ IsFiniteSet(DOMAIN node.sysctls)
         /\ \A i \in Interfaces(node) : IsFiniteSet(AddressesOf(node, i))
  BY Zenon DEF Planned

LEMMA CreateVethsKeeps ==
  ASSUME NEW c, NEW ns, Sound(c, ns), Planned(c.p, c.n)
  PROVE  Sound(c, CreateVeths(c.p, c.n, ns))
<1> DEFINE ends(k) == {e \in EndsOf(c.p.links[k]) : e[1] = c.n}
           pair(k, s) == FoldSet(LAMBDA e, t : VethEnd(c.p.links, k, e[2], t), s, ends(k))
           all == DOMAIN c.p.links
<1>1. ASSUME NEW k \in all, NEW s, Sound(c, s) PROVE Sound(c, pair(k, s))
  <2>1. ASSUME NEW e \in ends(k), NEW t, Sound(c, t) PROVE Sound(c, VethEnd(c.p.links, k, e[2], t))
    <3>1. k \in LinksAt(c.p.links, c.n, e[2])
      BY Zenon DEF Planned, LinksAt
    <3> QED
      BY <2>1, <3>1, VethEndKeeps
  <2>2. VethFold!IsFiniteSet(ends(k))
    <3>1. IsFiniteSet({c.p.links[k].left} \cup {c.p.links[k].right})
      <4>1. IsFiniteSet({c.p.links[k].left})
        BY FS_Singleton
      <4> QED
        BY <4>1, FS_AddElement
    <3>2. IsFiniteSet(ends(k))
      BY <3>1, FS_Subset DEF EndsOf
    <3> QED
      BY <3>2 DEF IsFiniteSet, VethFold!IsFiniteSet
  <2>3. VethFold!Run(c, k, s, ends(k)) = pair(k, s)
    BY DEF VethFold!Run, FoldSet, MapThenFoldSet
  <2>4. Sound(c, VethFold!Run(c, k, s, ends(k)))
    <3> HIDE DEF ends
    <3> QED
      BY <1>1, <2>1, <2>2, VethFold!FoldKeeps
  <2> QED
    BY <2>3, <2>4
<1>2. PairFold!IsFiniteSet(all)
  <2>1. IsFiniteSet(all)
    BY PlannedIsFinite
  <2> HIDE DEF all
  <2> QED
    BY <2>1 DEF IsFiniteSet, PairFold!IsFiniteSet
<1>3. PairFold!Run(c, 0, ns, all) = CreateVeths(c.p, c.n, ns)
  BY DEF PairFold!Run, CreateVeths, FoldSet, MapThenFoldSet
<1>4. Sound(c, PairFold!Run(c, 0, ns, all))
  BY <1>1, <1>2, PairFold!FoldKeeps
<1> QED
  BY <1>3, <1>4

LEMMA SetMacsKeep ==
  ASSUME NEW c, NEW ns, NEW names, IsFiniteSet(names), Sound(c, ns)
  PROVE  Sound(c, SetMacs(c.p.nodes[c.n], names, ns))
<1>1. \A x \in names : \A s : Sound(c, s) =>
        Sound(c, SetMac(Require(s, x), x, c.p.nodes[c.n].macs[x]))
  BY RequireKeeps, SetMacKeeps
<1>2. MacFold!IsFiniteSet(names)
  BY DEF IsFiniteSet, MacFold!IsFiniteSet
<1>3. MacFold!Run(c, 0, ns, names) = SetMacs(c.p.nodes[c.n], names, ns)
  BY DEF MacFold!Run, SetMacs, FoldSet, MapThenFoldSet
<1>4. Sound(c, MacFold!Run(c, 0, ns, names))
  BY <1>1, <1>2, MacFold!FoldKeeps
<1> QED
  BY <1>3, <1>4

LEMMA MacsAreFinite ==
  ASSUME NEW p, NEW n, Planned(p, n), NEW some \in SUBSET DOMAIN p.nodes[n].macs
  PROVE  IsFiniteSet(some)
<1>1. IsFiniteSet(DOMAIN p.nodes[n].interfaces \cup DOMAIN p.nodes[n].devices)
  BY FS_Union DEF Planned
<1> QED
  BY <1>1, FS_Subset DEF Planned

LEMMA IndexInterfacesKeeps ==
  ASSUME NEW c, NEW ns, Sound(c, ns), Planned(c.p, c.n)
  PROVE  Sound(c, IndexInterfaces(c.p.nodes[c.n], ns))
<1> DEFINE node == c.p.nodes[c.n]
           all == DOMAIN node.interfaces
           found == FoldSet(LAMBDA i, s : Require(s, i), ns, all)
           others == DOMAIN node.macs \ DOMAIN node.devices
<1>1. ASSUME NEW x \in all, NEW s, Sound(c, s) PROVE Sound(c, Require(s, x))
  BY <1>1, RequireKeeps
<1>2. IndexFold!IsFiniteSet(all)
  <2>1. IsFiniteSet(all)
    BY PlannedIsFinite
  <2> HIDE DEF all
  <2> QED
    BY <2>1 DEF IsFiniteSet, IndexFold!IsFiniteSet
<1>3. IndexFold!Run(c, 0, ns, all) = found
  BY DEF IndexFold!Run, FoldSet, MapThenFoldSet
<1>4. Sound(c, IndexFold!Run(c, 0, ns, all))
  BY <1>1, <1>2, IndexFold!FoldKeeps
<1>5. Sound(c, found)
  BY <1>3, <1>4
<1>6. IsFiniteSet(others)
  BY MacsAreFinite
<1> HIDE DEF found, others
<1>7. Sound(c, SetMacs(node, others, found))
  BY <1>5, <1>6, SetMacsKeep
<1> QED
  BY <1>7 DEF IndexInterfaces, found, others

LEMMA SetDeviceMacsKeeps ==
  ASSUME NEW c, NEW ns, Sound(c, ns), Planned(c.p, c.n)
  PROVE  Sound(c, SetDeviceMacs(c.p.nodes[c.n], ns))
<1> DEFINE node == c.p.nodes[c.n]
           some == DOMAIN node.macs \cap DOMAIN node.devices
<1>1. IsFiniteSet(some)
  BY MacsAreFinite
<1> HIDE DEF some
<1>2. Sound(c, SetMacs(node, some, ns))
  BY <1>1, SetMacsKeep
<1> QED
  BY <1>2 DEF SetDeviceMacs, some

LEMMA EnslaveKeeps ==
  ASSUME NEW c, NEW ns, NEW i, NEW b, Sound(c, ns), c.fresh = TRUE, i # "lo", i # None
  PROVE  Sound(c, Enslave(i, b, ns))
<1>1. Sound(c, SetDown(Require(ns, i), i))
  BY RequireKeeps, SetDownKeeps
<1>2. Sound(c, SetMaster(SetDown(Require(ns, i), i), i, b))
  BY <1>1, SetMasterKeeps
<1> QED
  BY <1>2, SetUpKeeps DEF Enslave

LEMMA AddBondKeeps ==
  ASSUME NEW c, NEW ns, NEW b, Sound(c, ns), c.fresh = TRUE, Planned(c.p, c.n),
         b \in OfType(c.p.nodes[c.n], "bond")
  PROVE  Sound(c, AddBond(c.p, c.n, b, ns))
<1> DEFINE d == c.p.nodes[c.n].devices[b]
           R == Range(d.interfaces)
           data == [link |-> None, mode |-> d.mode, miimon |-> d.miimon, lacp_rate |-> d.lacp_rate,
                    xmit_hash_policy |-> d.xmit_hash_policy, min_links |-> d.min_links,
                    primary |-> None]
           made == SetMtu(AddLink(ns, b, "bond", data), b, DeviceMtu(c.p, c.n, b))
           full == FoldLeft(LAMBDA s, i : Enslave(i, b, s), made, d.interfaces)
<1>1. Sound(c, made)
  <2> HIDE DEF data
  <2> QED
    BY AddLinkKeeps, SetMtuKeeps
<1>2. \A x \in R : \A s : Sound(c, s) => Sound(c, Enslave(x, b, s))
  <2>1. \A x \in R : x # "lo" /\ x # None
    BY Zenon DEF Planned
  <2> QED
    BY ZenonT(40), <2>1, EnslaveKeeps
<1>3. d.interfaces \in Seq(R)
  BY Zenon DEF Planned, IsSequence
<1> HIDE DEF made
<1>4. EnslaveFold!RunLeft(c, b, made, d.interfaces) = full
  BY DEF EnslaveFold!RunLeft, FoldLeft,
         MapThenFoldSet, Max
<1>5. Sound(c, EnslaveFold!RunLeft(c, b, made, d.interfaces))
  <2> HIDE DEF d, R
  <2> QED
    BY <1>1, <1>2, <1>3, EnslaveFold!FoldLeftKeeps
<1>6. Sound(c, full)
  BY <1>4, <1>5
<1> HIDE DEF full
<1>7. Sound(c, SetData(full, b, "primary", d.primary))
  BY <1>6, SetDataKeeps
<1>8. AddBond(c.p, c.n, b, ns) = IF d.primary = None THEN full
                                 ELSE SetData(full, b, "primary", d.primary)
  BY DEF AddBond, full, made
<1> QED
  BY <1>6, <1>7, <1>8

LEMMA DevicesOfTypeAreFinite ==
  ASSUME NEW p, NEW n, Planned(p, n), NEW type
  PROVE  IsFiniteSet(OfType(p.nodes[n], type))
  BY FS_Subset DEF Planned, OfType

LEMMA AddBondsKeeps ==
  ASSUME NEW c, NEW ns, Sound(c, ns), c.fresh = TRUE, Planned(c.p, c.n)
  PROVE  Sound(c, AddBonds(c.p, c.n, ns))
<1> DEFINE all == OfType(c.p.nodes[c.n], "bond")
<1>1. \A x \in all : \A s : Sound(c, s) => Sound(c, AddBond(c.p, c.n, x, s))
  BY AddBondKeeps
<1>2. BondFold!IsFiniteSet(all)
  <2>1. IsFiniteSet(all)
    BY DevicesOfTypeAreFinite
  <2> HIDE DEF all
  <2> QED
    BY <2>1 DEF IsFiniteSet, BondFold!IsFiniteSet
<1>3. BondFold!Run(c, 0, ns, all) = AddBonds(c.p, c.n, ns)
  BY DEF BondFold!Run, AddBonds, FoldSet, MapThenFoldSet
<1>4. Sound(c, BondFold!Run(c, 0, ns, all))
  <2> HIDE DEF all
  <2> QED
    BY <1>1, <1>2, BondFold!FoldKeeps
<1> QED
  BY <1>3, <1>4

LEMMA AddVrfsKeeps ==
  ASSUME NEW c, NEW ns, Sound(c, ns), Planned(c.p, c.n)
  PROVE  Sound(c, AddVrfs(c.p.nodes[c.n], ns))
<1> DEFINE all == OfType(c.p.nodes[c.n], "vrf")
<1>1. \A x \in all : \A s : Sound(c, s) =>
        Sound(c, AddLink(s, x, "vrf", [link |-> None, table |-> c.p.nodes[c.n].devices[x].table]))
  BY AddLinkKeeps
<1>2. VrfFold!IsFiniteSet(all)
  <2>1. IsFiniteSet(all)
    BY DevicesOfTypeAreFinite
  <2> HIDE DEF all
  <2> QED
    BY <2>1 DEF IsFiniteSet, VrfFold!IsFiniteSet
<1>3. VrfFold!Run(c, 0, ns, all) = AddVrfs(c.p.nodes[c.n], ns)
  BY DEF VrfFold!Run, AddVrfs, FoldSet, MapThenFoldSet
<1>4. Sound(c, VrfFold!Run(c, 0, ns, all))
  <2> HIDE DEF all
  <2> QED
    BY <1>1, <1>2, VrfFold!FoldKeeps
<1> QED
  BY <1>3, <1>4

LEMMA AddDevicesKeeps ==
  ASSUME NEW c, NEW ns, NEW type, Sound(c, ns), Planned(c.p, c.n)
  PROVE  Sound(c, AddDevices(c.p, c.n, type, ns))
<1> DEFINE all == OfType(c.p.nodes[c.n], type)
<1>1. ASSUME NEW x \in all, NEW s, Sound(c, s) PROVE Sound(c, AddDevice(c.p, c.n, x, s))
  <2> DEFINE d == c.p.nodes[c.n].devices[x]
             found == IF d.type \in Stacked THEN Require(s, d.link) ELSE s
             made == AddLink(found, x, d.type, DataOf(d))
  <2>1. Sound(c, found)
    BY <1>1, RequireKeeps
  <2> HIDE DEF found
  <2>2. Sound(c, made)
    BY <2>1, AddLinkKeeps
  <2> HIDE DEF made
  <2>3. Sound(c, SetUp(SetMtu(made, x, DeviceMtu(c.p, c.n, x)), x))
    BY <2>2, SetMtuKeeps, SetUpKeeps
  <2>4. AddDevice(c.p, c.n, x, s) =
          IF d.type = "vlan" THEN made ELSE SetUp(SetMtu(made, x, DeviceMtu(c.p, c.n, x)), x)
    BY DEF AddDevice, made, found
  <2> QED
    BY <2>2, <2>3, <2>4
<1>2. DeviceFold!IsFiniteSet(all)
  <2>1. IsFiniteSet(all)
    BY DevicesOfTypeAreFinite
  <2> HIDE DEF all
  <2> QED
    BY <2>1 DEF IsFiniteSet, DeviceFold!IsFiniteSet
<1>3. DeviceFold!Run(c, 0, ns, all) = AddDevices(c.p, c.n, type, ns)
  BY DEF DeviceFold!Run, AddDevices, FoldSet,
         MapThenFoldSet
<1>4. Sound(c, DeviceFold!Run(c, 0, ns, all))
  <2> HIDE DEF all
  <2> QED
    BY <1>1, <1>2, DeviceFold!FoldKeeps
<1> QED
  BY <1>3, <1>4

MemberFold   == INSTANCE Folding WITH Good <- Sound, Op <- LAMBDA c, a, x, s : JoinVrf(x, a, s)
JoinVrfFold  == INSTANCE Folding WITH Good <- Sound,
                  Op <- LAMBDA c, a, x, s :
                    FoldLeft(LAMBDA t, i : JoinVrf(i, x, t), SetUp(s, x),
                             c.p.nodes[c.n].devices[x].interfaces)
VlanFold     == INSTANCE Folding WITH Good <- Sound, Op <- LAMBDA c, a, x, s : AddVlan(s, a, x)
PortFold     == INSTANCE Folding WITH Good <- Sound,
                  Op <- LAMBDA c, a, x, s : JoinPort(c.p.nodes[c.n], x, s)
AddressFold  == INSTANCE Folding WITH Good <- Sound, Op <- LAMBDA c, a, x, s : AddAddress(s, a, x)
AddressedFold == INSTANCE Folding WITH Good <- Sound,
                  Op <- LAMBDA c, a, x, s : AddressUp(c.p.nodes[c.n], x, s)
RouteFold    == INSTANCE Folding WITH Good <- Sound, Op <- LAMBDA c, a, x, s : AddRoute(s, x)
NeighborFold == INSTANCE Folding WITH Good <- Sound, Op <- LAMBDA c, a, x, s : AddNeighbor(s, x)
RuleFold     == INSTANCE Folding WITH Good <- Sound, Op <- LAMBDA c, a, x, s : AddRule(s, x)
SysctlFold   == INSTANCE Folding WITH Good <- Sound,
                  Op <- LAMBDA c, a, x, s : WriteSysctl(s, x, c.p.nodes[c.n].sysctls[x])

LEMMA JoinVrfsKeeps ==
  ASSUME NEW c, NEW ns, Sound(c, ns), c.fresh = TRUE, Planned(c.p, c.n)
  PROVE  Sound(c, JoinVrfs(c.p.nodes[c.n], ns))
<1> DEFINE node == c.p.nodes[c.n]
           all == OfType(node, "vrf")
           join(f, s) == FoldLeft(LAMBDA t, i : JoinVrf(i, f, t), SetUp(s, f),
                                  node.devices[f].interfaces)
<1>1. ASSUME NEW f \in all, NEW s, Sound(c, s) PROVE Sound(c, join(f, s))
  <2> DEFINE seq == node.devices[f].interfaces
             R == Range(seq)
             up == SetUp(s, f)
  <2>1. \A x \in R : \A t : Sound(c, t) => Sound(c, JoinVrf(x, f, t))
    <3>1. \A x \in R : x # "lo" /\ x # None
      BY Zenon DEF Planned
    <3>2. ASSUME NEW x \in R, NEW t, Sound(c, t) PROVE Sound(c, JoinVrf(x, f, t))
      <4>1. Sound(c, SetDown(Require(t, x), x))
        BY <3>1, <3>2, RequireKeeps, SetDownKeeps
      <4> QED
        BY <4>1, SetMasterKeeps DEF JoinVrf
    <3> QED
      BY SMTT(30), <3>2
  <2>2. seq \in Seq(R)
    BY Zenon DEF Planned, IsSequence
  <2>3. Sound(c, up)
    BY <1>1, SetUpKeeps
  <2>4. MemberFold!RunLeft(c, f, up, seq) = join(f, s)
    BY DEF MemberFold!RunLeft, FoldLeft,
           MapThenFoldSet, Max
  <2>5. Sound(c, MemberFold!RunLeft(c, f, up, seq))
    <3> HIDE DEF up, seq, R
    <3> QED
      BY <2>1, <2>2, <2>3, MemberFold!FoldLeftKeeps
  <2> QED
    BY <2>4, <2>5
<1>2. JoinVrfFold!IsFiniteSet(all)
  <2>1. IsFiniteSet(all)
    BY DevicesOfTypeAreFinite
  <2> HIDE DEF all
  <2> QED
    BY <2>1 DEF IsFiniteSet, JoinVrfFold!IsFiniteSet
<1>3. JoinVrfFold!Run(c, 0, ns, all) = JoinVrfs(c.p.nodes[c.n], ns)
  BY DEF JoinVrfFold!Run, JoinVrfs, FoldSet,
         MapThenFoldSet
<1>4. Sound(c, JoinVrfFold!Run(c, 0, ns, all))
  <2> HIDE DEF all
  <2> QED
    BY <1>1, <1>2, JoinVrfFold!FoldKeeps
<1> QED
  BY <1>3, <1>4

LEMMA JoinVlansKeeps ==
  ASSUME NEW c, NEW ns, NEW port, NEW i, Sound(c, ns), IsSequence(port.vlans),
         \A v \in Range(port.vlans) : v.vid \in Int
  PROVE  Sound(c, JoinVlans(port, i, ns))
<1> DEFINE R == Range(port.vlans)
           start == DeleteVlan(ns, i, 1)
           full == FoldLeft(LAMBDA s, w : AddVlan(s, i, w), start, port.vlans)
<1>1. \A x \in R : \A s : Sound(c, s) => Sound(c, AddVlan(s, i, x))
  BY AddVlanKeeps
<1>2. port.vlans \in Seq(R)
  BY DEF IsSequence
<1>3. Sound(c, start)
  BY DeleteVlanKeeps
<1> HIDE DEF start
<1>4. VlanFold!RunLeft(c, i, start, port.vlans) = full
  BY DEF VlanFold!RunLeft, FoldLeft,
         MapThenFoldSet, Max
<1>5. Sound(c, VlanFold!RunLeft(c, i, start, port.vlans))
  <2> HIDE DEF R
  <2> QED
    BY <1>1, <1>2, <1>3, VlanFold!FoldLeftKeeps
<1>6. Sound(c, full)
  BY <1>4, <1>5
<1> HIDE DEF full
<1>7. JoinVlans(port, i, ns) = IF port.vlans = <<>> THEN ns ELSE full
  BY DEF JoinVlans, full, start
<1> QED
  BY <1>6, <1>7

LEMMA JoinPortKeeps ==
  ASSUME NEW c, NEW ns, NEW i, Sound(c, ns), Planned(c.p, c.n), c.p.nodes[c.n].kind = "bridge"
  PROVE  Sound(c, JoinPort(c.p.nodes[c.n], i, ns))
<1> DEFINE node == c.p.nodes[c.n]
           joined == SetMaster(Require(ns, i), i, node.bridge.name)
           ported == SetPort(joined, i, node.bridge.ports[i])
           set == IF i \notin DOMAIN node.bridge.ports THEN joined
                  ELSE JoinVlans(node.bridge.ports[i], i, ported)
<1>1. Sound(c, joined)
  BY RequireKeeps, SetMasterKeeps
<1> HIDE DEF joined
<1>2. Sound(c, ported)
  BY <1>1, SetPortKeeps
<1> HIDE DEF ported
<1>3. Sound(c, set)
  <2>1. CASE i \in DOMAIN node.bridge.ports
    <3>1. /\ IsSequence(node.bridge.ports[i].vlans)
          /\ \A v \in Range(node.bridge.ports[i].vlans) : v.vid \in Int
      BY ZenonT(40), <2>1 DEF Planned
    <3>2. Sound(c, JoinVlans(node.bridge.ports[i], i, ported))
      BY ZenonT(40), <1>2, <3>1, JoinVlansKeeps
    <3>3. set = JoinVlans(node.bridge.ports[i], i, ported)
      BY <2>1
    <3> HIDE DEF set
    <3> QED
      BY <3>2, <3>3
  <2> QED
    BY <1>1, <2>1
<1> HIDE DEF set
<1>4. Sound(c, SetUp(set, i))
  BY <1>3, SetUpKeeps
<1>5. JoinPort(node, i, ns) = IF i \in DOMAIN node.devices THEN SetUp(set, i) ELSE set
  BY DEF JoinPort, set, ported, joined
<1> QED
  BY <1>3, <1>4, <1>5

LEMMA JoinBridgeKeeps ==
  ASSUME NEW c, NEW ns, Sound(c, ns), Planned(c.p, c.n)
  PROVE  Sound(c, JoinBridge(c.p, c.n, ns))
<1> DEFINE node == c.p.nodes[c.n]
           all == Ports(c.p, c.n)
           joined == FoldSet(LAMBDA i, s : JoinPort(node, i, s), ns, all)
<1>1. node.kind = "bridge" => \A x \in all : \A s : Sound(c, s) => Sound(c, JoinPort(node, x, s))
  BY JoinPortKeeps
<1>2. PortFold!IsFiniteSet(all)
  <2>1. IsFiniteSet(all)
    <3>1. IsFiniteSet({i \in Linked(c.p.links, c.n) : Master(node, i) = node.bridge.name})
      BY Zenon, FS_Subset DEF Planned
    <3> QED
      BY ZenonT(40), <3>1, FS_Union DEF Ports, Planned
  <2> HIDE DEF all
  <2> QED
    BY <2>1 DEF IsFiniteSet, PortFold!IsFiniteSet
<1> HIDE DEF all
<1>3. PortFold!Run(c, 0, ns, all) = joined
  BY DEF PortFold!Run, FoldSet, MapThenFoldSet
<1>4. node.kind = "bridge" => Sound(c, PortFold!Run(c, 0, ns, all))
  BY <1>1, <1>2, PortFold!FoldKeeps
<1>5. node.kind = "bridge" => Sound(c, joined)
  BY <1>3, <1>4
<1> HIDE DEF joined
<1>6. node.kind = "bridge" => Sound(c, SetUp(joined, node.bridge.name))
  BY <1>5, SetUpKeeps
<1>7. JoinBridge(c.p, c.n, ns) =
        IF node.kind # "bridge" THEN ns
        ELSE IF node.bridge.name \in DOMAIN node.interfaces THEN joined
        ELSE SetUp(joined, node.bridge.name)
  BY DEF JoinBridge, joined, all
<1> QED
  BY <1>5, <1>6, <1>7

LEMMA AddAddressesKeeps ==
  ASSUME NEW c, NEW ns, Sound(c, ns), c.fresh # TRUE, Planned(c.p, c.n)
  PROVE  Sound(c, AddAddresses(c.p.nodes[c.n], ns))
<1> DEFINE node == c.p.nodes[c.n]
           named == DOMAIN node.interfaces
           made == Addressed(node)
           half == FoldSet(LAMBDA i, s : AddressUp(node, i, s), ns, named)
<1>1. ASSUME NEW i \in Interfaces(node), NEW s, Sound(c, s) PROVE Sound(c, AddressUp(node, i, s))
  <2> DEFINE all == AddressesOf(node, i)
             done == FoldSet(LAMBDA a, t : AddAddress(t, i, a), s, all)
  <2>1. ASSUME NEW x \in all, NEW t, Sound(c, t) PROVE Sound(c, AddAddress(t, i, x))
    <3>1. x.v \in Families(node)
      BY Zenon DEF Planned
    <3> QED
      BY <2>1, <3>1, AddAddressKeeps
  <2>2. AddressFold!IsFiniteSet(all)
    <3>1. IsFiniteSet(all)
      BY <1>1, PlannedIsFinite
    <3> HIDE DEF all
    <3> QED
      BY <3>1 DEF IsFiniteSet, AddressFold!IsFiniteSet
  <2>3. AddressFold!Run(c, i, s, all) = done
    BY DEF AddressFold!Run, FoldSet,
           MapThenFoldSet
  <2>4. Sound(c, AddressFold!Run(c, i, s, all))
    <3> HIDE DEF all
    <3> QED
      BY <1>1, <2>1, <2>2, AddressFold!FoldKeeps
  <2>5. Sound(c, done)
    BY <2>3, <2>4
  <2> HIDE DEF done
  <2>6. Sound(c, SetUp(done, i))
    BY <2>5, SetUpKeeps
  <2> QED
    BY <2>6 DEF AddressUp, done
<1>2. /\ \A x \in named : \A s : Sound(c, s) => Sound(c, AddressUp(node, x, s))
      /\ \A x \in made : \A s : Sound(c, s) => Sound(c, AddressUp(node, x, s))
  <2>1. named \subseteq Interfaces(node) /\ made \subseteq Interfaces(node)
    BY DEF Interfaces
  <2> HIDE DEF named, made, node
  <2> QED
    BY <1>1, <2>1
<1>3. AddressedFold!IsFiniteSet(named) /\ AddressedFold!IsFiniteSet(made)
  <2>1. IsFiniteSet(named)
    BY PlannedIsFinite
  <2>2. IsFiniteSet(made)
    <3>1. IsFiniteSet(DOMAIN node.devices) /\ made \subseteq DOMAIN node.devices
      BY PlannedIsFinite DEF Addressed
    <3> QED
      BY <3>1, FS_Subset
  <2> HIDE DEF named, made
  <2>3. AddressedFold!IsFiniteSet(named)
    BY <2>1 DEF IsFiniteSet, AddressedFold!IsFiniteSet
  <2>4. AddressedFold!IsFiniteSet(made)
    BY <2>2 DEF IsFiniteSet, AddressedFold!IsFiniteSet
  <2> QED
    BY <2>3, <2>4
<1>4. AddressedFold!Run(c, 0, ns, named) = half
  BY DEF AddressedFold!Run, FoldSet,
         MapThenFoldSet
<1>5. Sound(c, AddressedFold!Run(c, 0, ns, named))
  <2> HIDE DEF named
  <2> QED
    BY <1>2, <1>3, AddressedFold!FoldKeeps
<1>6. Sound(c, half)
  BY <1>4, <1>5
<1> HIDE DEF half
<1>7. AddressedFold!Run(c, 0, half, made) = FoldSet(LAMBDA i, s : AddressUp(node, i, s), half, made)
  BY DEF AddressedFold!Run, FoldSet,
         MapThenFoldSet
<1>8. Sound(c, AddressedFold!Run(c, 0, half, made))
  <2> HIDE DEF made
  <2> QED
    BY <1>2, <1>3, <1>6, AddressedFold!FoldKeeps
<1>9. AddAddresses(node, ns) = FoldSet(LAMBDA i, s : AddressUp(node, i, s), half, made)
  BY DEF AddAddresses, half
<1> QED
  BY <1>7, <1>8, <1>9

LEMMA AddRoutesKeeps ==
  ASSUME NEW c, NEW ns, Sound(c, ns), c.fresh # TRUE, Planned(c.p, c.n)
  PROVE  Sound(c, AddRoutes(c.p.nodes[c.n], ns))
<1> DEFINE routes == c.p.nodes[c.n].routes
           R == Range(routes)
<1>1. ASSUME NEW x \in R, NEW s, Sound(c, s) PROVE Sound(c, AddRoute(s, x))
  BY <1>1, AddRouteKeeps
<1>2. routes \in Seq(R)
  BY Zenon DEF Planned, IsSequence
<1>3. RouteFold!RunLeft(c, 0, ns, routes) = AddRoutes(c.p.nodes[c.n], ns)
  BY DEF RouteFold!RunLeft, AddRoutes, FoldLeft,
         MapThenFoldSet, Max
<1>4. Sound(c, RouteFold!RunLeft(c, 0, ns, routes))
  <2> HIDE DEF routes, R
  <2> QED
    BY <1>1, <1>2, RouteFold!FoldLeftKeeps
<1> QED
  BY <1>3, <1>4

LEMMA AddNeighborsKeeps ==
  ASSUME NEW c, NEW ns, Sound(c, ns), Planned(c.p, c.n)
  PROVE  Sound(c, AddNeighbors(c.p.nodes[c.n], ns))
<1> DEFINE all == c.p.nodes[c.n].neighbors
<1>1. ASSUME NEW x \in all, NEW s, Sound(c, s) PROVE Sound(c, AddNeighbor(s, x))
  BY <1>1, AddNeighborKeeps
<1>2. NeighborFold!IsFiniteSet(all)
  <2>1. IsFiniteSet(all)
    BY PlannedIsFinite
  <2> HIDE DEF all
  <2> QED
    BY <2>1 DEF IsFiniteSet, NeighborFold!IsFiniteSet
<1>3. NeighborFold!Run(c, 0, ns, all) = AddNeighbors(c.p.nodes[c.n], ns)
  BY DEF NeighborFold!Run, AddNeighbors, FoldSet,
         MapThenFoldSet
<1>4. Sound(c, NeighborFold!Run(c, 0, ns, all))
  <2> HIDE DEF all
  <2> QED
    BY <1>1, <1>2, NeighborFold!FoldKeeps
<1> QED
  BY <1>3, <1>4

LEMMA AddRulesKeeps ==
  ASSUME NEW c, NEW ns, Sound(c, ns), Planned(c.p, c.n)
  PROVE  Sound(c, AddRules(c.p.nodes[c.n], ns))
<1> DEFINE all == c.p.nodes[c.n].rules
<1>1. ASSUME NEW x \in all, NEW s, Sound(c, s) PROVE Sound(c, AddRule(s, x))
  BY <1>1, AddRuleKeeps
<1>2. RuleFold!IsFiniteSet(all)
  <2>1. IsFiniteSet(all)
    BY PlannedIsFinite
  <2> HIDE DEF all
  <2> QED
    BY <2>1 DEF IsFiniteSet, RuleFold!IsFiniteSet
<1>3. RuleFold!Run(c, 0, ns, all) = AddRules(c.p.nodes[c.n], ns)
  BY DEF RuleFold!Run, AddRules, FoldSet,
         MapThenFoldSet
<1>4. Sound(c, RuleFold!Run(c, 0, ns, all))
  <2> HIDE DEF all
  <2> QED
    BY <1>1, <1>2, RuleFold!FoldKeeps
<1> QED
  BY <1>3, <1>4

LEMMA WriteSysctlsKeeps ==
  ASSUME NEW c, NEW ns, Sound(c, ns), Planned(c.p, c.n)
  PROVE  Sound(c, WriteSysctls(c.p.nodes[c.n], ns))
<1> DEFINE all == DOMAIN c.p.nodes[c.n].sysctls
<1>1. ASSUME NEW x \in all, NEW s, Sound(c, s)
      PROVE  Sound(c, WriteSysctl(s, x, c.p.nodes[c.n].sysctls[x]))
  BY <1>1, WriteSysctlKeeps
<1>2. SysctlFold!IsFiniteSet(all)
  <2>1. IsFiniteSet(all)
    BY PlannedIsFinite
  <2> HIDE DEF all
  <2> QED
    BY <2>1 DEF IsFiniteSet, SysctlFold!IsFiniteSet
<1>3. SysctlFold!Run(c, 0, ns, all) = WriteSysctls(c.p.nodes[c.n], ns)
  BY DEF SysctlFold!Run, WriteSysctls, FoldSet,
         MapThenFoldSet
<1>4. Sound(c, SysctlFold!Run(c, 0, ns, all))
  <2> HIDE DEF all
  <2> QED
    BY <1>1, <1>2, SysctlFold!FoldKeeps
<1> QED
  BY <1>3, <1>4

-----------------------------------------------------------------------------
(* Block by block: what a step of configure_node keeps.                     *)

Ctx(p, n, before, fresh) == [p |-> p, n |-> n, before |-> before, fresh |-> fresh]

LEMMA SoundFrom ==
  ASSUME NEW p, NEW n, NEW ns, NEW fresh, Formed(ns), Origin(p, n, ns), fresh = TRUE => Fresh(ns)
  PROVE  Sound(Ctx(p, n, ns, fresh), ns)
<1> DEFINE c == Ctx(p, n, ns, fresh)
<1>1. c.p = p /\ c.n = n /\ c.before = ns /\ c.fresh = fresh
  BY DEF Ctx
<1>2. Adds(ns, ns)
  BY DEF Adds
<1> HIDE DEF c
<1> QED
  BY <1>1, <1>2 DEF Sound, c

LEMMA SoundGives ==
  ASSUME NEW p, NEW n, NEW before, NEW ns, NEW fresh, Sound(Ctx(p, n, before, fresh), ns)
  PROVE  Formed(ns) /\ Origin(p, n, ns) /\ Adds(before, ns) /\ (fresh = TRUE => Fresh(ns))
<1> DEFINE c == Ctx(p, n, before, fresh)
<1>1. c.p = p /\ c.n = n /\ c.before = before /\ c.fresh = fresh
  BY DEF Ctx
<1> HIDE DEF c
<1> QED
  BY <1>1 DEF Sound, c
LEMMA PerformKeeps ==
  ASSUME NEW n, NEW ns, NEW block \in Range(Blocks), Planned(plan, n), Formed(ns), Origin(plan, n, ns),
         block \notin Late => Fresh(ns)
  PROVE  LET r == Perform(block, n, ns) IN
         Formed(r) /\ Origin(plan, n, r) /\ Adds(ns, r) /\ (block \notin Late => Fresh(r))
<1> DEFINE fresh == IF block \in Late THEN FALSE ELSE TRUE
           c == Ctx(plan, n, ns, fresh)
           node == plan.nodes[n]
           r == Perform(block, n, ns)
<1>1. c.p = plan /\ c.n = n /\ c.fresh = fresh
  BY DEF Ctx
<1>2. Sound(c, ns)
  BY SoundFrom
<1>3. (block \in Late => fresh # TRUE) /\ (block \notin Late => fresh = TRUE)
  OBVIOUS
<1> HIDE DEF c, fresh
<1>4. Sound(c, r)
  <2>1. CASE block = "interfaces"
    <3>1. block \notin Range(DeviceOrder)
      BY <2>1 DEF Range, DeviceOrder
    <3>2. r = IndexInterfaces(node, ns)
      BY <2>1, <3>1 DEF Perform
    <3> QED
      BY <1>1, <1>2, <3>2, IndexInterfacesKeeps
  <2>2. CASE block = "bonds"
    <3>1. block \notin Range(DeviceOrder)
      BY <2>2 DEF Range, DeviceOrder
    <3>2. r = AddBonds(plan, n, ns)
      BY <2>2, <3>1 DEF Perform
    <3>3. c.fresh = TRUE
      BY <1>1, <1>3, <2>2 DEF Late
    <3> QED
      BY <1>1, <1>2, <3>2, <3>3, AddBondsKeeps
  <2>3. CASE block = "vrfs"
    <3>1. block \notin Range(DeviceOrder)
      BY <2>3 DEF Range, DeviceOrder
    <3>2. r = AddVrfs(node, ns)
      BY <2>3, <3>1 DEF Perform
    <3> QED
      BY <1>1, <1>2, <3>2, AddVrfsKeeps
  <2>4. CASE block \in Range(DeviceOrder)
    <3>1. block \notin {"interfaces", "bonds", "vrfs", "macs", "members", "ports", "addresses",
                       "routes", "neighbors", "rules", "sysctls"}
      BY <2>4 DEF Range, DeviceOrder
    <3>2. r = AddDevices(plan, n, block, ns)
      BY <2>4, <3>1 DEF Perform
    <3> QED
      BY <1>1, <1>2, <3>2, AddDevicesKeeps
  <2>5. CASE block = "macs"
    <3>1. block \notin Range(DeviceOrder)
      BY <2>5 DEF Range, DeviceOrder
    <3>2. r = SetDeviceMacs(node, ns)
      BY <2>5, <3>1 DEF Perform
    <3> QED
      BY <1>1, <1>2, <3>2, SetDeviceMacsKeeps
  <2>6. CASE block = "members"
    <3>1. block \notin Range(DeviceOrder)
      BY <2>6 DEF Range, DeviceOrder
    <3>2. r = JoinVrfs(node, ns)
      BY <2>6, <3>1 DEF Perform
    <3>3. c.fresh = TRUE
      BY <1>1, <1>3, <2>6 DEF Late
    <3> QED
      BY <1>1, <1>2, <3>2, <3>3, JoinVrfsKeeps
  <2>7. CASE block = "ports"
    <3>1. block \notin Range(DeviceOrder)
      BY <2>7 DEF Range, DeviceOrder
    <3>2. r = JoinBridge(plan, n, ns)
      BY <2>7, <3>1 DEF Perform
    <3> QED
      BY <1>1, <1>2, <3>2, JoinBridgeKeeps
  <2>8. CASE block = "addresses"
    <3>1. block \notin Range(DeviceOrder)
      BY <2>8 DEF Range, DeviceOrder
    <3>2. r = AddAddresses(node, ns)
      BY <2>8, <3>1 DEF Perform
    <3>3. c.fresh # TRUE
      BY <1>1, <1>3, <2>8 DEF Late
    <3> QED
      BY <1>1, <1>2, <3>2, <3>3, AddAddressesKeeps
  <2>9. CASE block = "routes"
    <3>1. block \notin Range(DeviceOrder)
      BY <2>9 DEF Range, DeviceOrder
    <3>2. r = AddRoutes(node, ns)
      BY <2>9, <3>1 DEF Perform
    <3>3. c.fresh # TRUE
      BY <1>1, <1>3, <2>9 DEF Late
    <3> QED
      BY <1>1, <1>2, <3>2, <3>3, AddRoutesKeeps
  <2>10. CASE block = "neighbors"
    <3>1. block \notin Range(DeviceOrder)
      BY <2>10 DEF Range, DeviceOrder
    <3>2. r = AddNeighbors(node, ns)
      BY <2>10, <3>1 DEF Perform
    <3> QED
      BY <1>1, <1>2, <3>2, AddNeighborsKeeps
  <2>11. CASE block = "rules"
    <3>1. block \notin Range(DeviceOrder)
      BY <2>11 DEF Range, DeviceOrder
    <3>2. r = AddRules(node, ns)
      BY <2>11, <3>1 DEF Perform
    <3> QED
      BY <1>1, <1>2, <3>2, AddRulesKeeps
  <2>12. CASE block = "sysctls"
    <3>1. block \notin Range(DeviceOrder)
      BY <2>12 DEF Range, DeviceOrder
    <3>2. r = WriteSysctls(node, ns)
      BY <2>12, <3>1 DEF Perform
    <3> QED
      BY <1>1, <1>2, <3>2, WriteSysctlsKeeps
  <2> QED
    BY <2>1, <2>2, <2>3, <2>4, <2>5, <2>6, <2>7, <2>8, <2>9, <2>10, <2>11, <2>12
       DEF Range, Blocks, DeviceOrder
<1> HIDE DEF r
<1>5. Formed(r) /\ Origin(plan, n, r) /\ Adds(ns, r) /\ (fresh = TRUE => Fresh(r))
  BY <1>4, SoundGives DEF c
<1> QED
  BY <1>3, <1>5 DEF r

-----------------------------------------------------------------------------
(* Every step keeps the invariant.                                          *)

LEMMA CreatedNamespace ==
  ASSUME NEW p, NEW n
  PROVE  Formed(CreateNamespace) /\ Origin(p, n, CreateNamespace) /\ Fresh(CreateNamespace)
<1>1. Formed(EmptyNs)
  <2>1. IsFunction(EmptyNs) /\ NsFields \subseteq DOMAIN EmptyNs
    BY SMTT(30) DEF EmptyNs, IsFunction, NsFields
  <2>2. DOMAIN EmptyNs.links = {"lo"} /\ IsFunction(EmptyNs.links)
    BY DEF EmptyNs, IsFunction
  <2>3. IsLink(EmptyNs.links["lo"])
    BY LoopbackFacts
  <2> QED
    BY <2>1, <2>2, <2>3 DEF Formed
<1>2. Origin(p, n, EmptyNs)
  <2>1. 4 \in Families(p.nodes[n])
    BY DEF Families
  <2>2. LinkOrigin(p, n, "lo", EmptyNs.links["lo"])
    BY <2>1, LoopbackFacts DEF LinkOrigin
  <2>3. /\ DOMAIN EmptyNs.links = {"lo"} /\ EmptyNs.routes = {} /\ EmptyNs.rules = {}
        /\ EmptyNs.neighbors = {}
    BY DEF EmptyNs
  <2> QED
    BY <2>2, <2>3 DEF Origin
<1>3. Fresh(EmptyNs)
  <2>1. DOMAIN EmptyNs.links = {"lo"} /\ EmptyNs.routes = {}
    BY DEF EmptyNs
  <2> QED
    BY <2>1, LoopbackFacts DEF Fresh, NoData
<1>4. Sound(Ctx(p, n, EmptyNs, TRUE), EmptyNs)
  BY <1>1, <1>2, <1>3, SoundFrom
<1>5. Sound(Ctx(p, n, EmptyNs, TRUE), CreateNamespace)
  BY <1>4, SetUpKeeps DEF CreateNamespace
<1> QED
  BY <1>5, SoundGives

LEMMA CreatedBridge ==
  ASSUME NEW p, NEW n, NEW ns, Formed(ns), Origin(p, n, ns), Fresh(ns)
  PROVE  LET r == CreateBridge(p.nodes[n], ns) IN Formed(r) /\ Origin(p, n, r) /\ Fresh(r)
<1> DEFINE c == Ctx(p, n, ns, TRUE)
<1>1. Sound(c, ns)
  BY SoundFrom
<1> HIDE DEF c
<1>2. Sound(c, CreateBridge(p.nodes[n], ns))
  BY <1>1, AddLinkKeeps DEF CreateBridge
<1> QED
  BY <1>2, SoundGives DEF c

LEMMA CreatedVeths ==
  ASSUME NEW p, NEW n, NEW ns, Formed(ns), Origin(p, n, ns), Fresh(ns), Planned(p, n)
  PROVE  LET r == CreateVeths(p, n, ns) IN Formed(r) /\ Origin(p, n, r) /\ Fresh(r)
<1> DEFINE c == Ctx(p, n, ns, TRUE)
<1>1. c.p = p /\ c.n = n
  BY DEF Ctx
<1>2. Sound(c, ns)
  BY SoundFrom
<1> HIDE DEF c
<1>3. Sound(c, CreateVeths(p, n, ns))
  BY <1>1, <1>2, CreateVethsKeeps
<1> QED
  BY <1>3, SoundGives DEF c

LEMMA PimregSettles ==
  ASSUME NEW p, NEW n, NEW ns, Formed(ns), Origin(p, n, ns)
  PROVE  LET r == Pimreg(ns) IN
         /\ Formed(r) /\ Origin(p, n, r) /\ "pimreg" \in DOMAIN r.links
         /\ r.links["pimreg"] = PimregLink
<1> DEFINE links == With(ns.links, "pimreg", PimregLink)
           r == Pimreg(ns)
<1>1. IsLink(PimregLink) /\ LinkOrigin(p, n, "pimreg", PimregLink)
  BY PimregFacts DEF LinkOrigin
<1>2. /\ IsFunction(links) /\ DOMAIN links = {"pimreg"} \cup DOMAIN ns.links
      /\ \A i \in DOMAIN links : links[i] = IF i = "pimreg" THEN PimregLink ELSE ns.links[i]
  BY DEF With, IsFunction
<1>3. /\ IsFunction(r) /\ NsFields \subseteq DOMAIN r /\ r.links = links /\ r.routes = ns.routes
      /\ r.rules = ns.rules /\ r.neighbors = ns.neighbors
  <2>1. r = [ns EXCEPT !.links = links]
    BY DEF Pimreg, PimregLink
  <2> HIDE DEF links, r
  <2> QED
    BY <2>1 DEF Formed, IsFunction, NsFields
<1> HIDE DEF links, r
<1>4. Formed(r)
  BY <1>1, <1>2, <1>3 DEF Formed
<1>5. Origin(p, n, r)
  BY <1>1, <1>2, <1>3 DEF Origin
<1> QED
  BY <1>2, <1>3, <1>4, <1>5 DEF r

LEMMA LearnSettles ==
  ASSUME NEW p, NEW n, NEW ns, Settled(p, n, ns), p.nodes[n].routing # None
  PROVE  Settled(p, n, Learn(ns))
<1> DEFINE r == Learn(ns)
<1>1. /\ Formed(r) /\ r.links = ns.links /\ r.routes = ns.routes \cup {Learned}
      /\ r.rules = ns.rules /\ r.neighbors = ns.neighbors
  BY DEF Learn, Settled, Formed, IsFunction, NsFields
<1> HIDE DEF r
<1>2. Settled(p, n, r)
  BY <1>1 DEF Settled
<1> QED
  BY <1>2 DEF r

LEMMA InitBuilds == Init => Builds
  BY DEF Init, Builds, Nodes, Building, Steps, Blocks, Range
LEMMA NodesArePlanned ==
  ASSUME manifest \in Manifests, Accepted(manifest), NEW n \in Nodes
  PROVE  Planned(plan, n)
  BY PlansArePlanned, ManifestsAssumption DEF plan, Nodes

(* What a stage does to the node it has come to.                            *)
LEMMA StepBuilds ==
  ASSUME Builds, [Next]_vars, NEW stage \in {"namespaces", "bridges", "veths"}, NEW result,
         Step(stage, result),
         Formed(result) /\ Origin(plan, Next1, result) /\ Fresh(result)
  PROVE  Builds'
<1>1. manifest' = manifest /\ plan' = plan /\ Nodes' = Nodes
  BY PlanKept
<1>2. pc = stage /\ todo # {} /\ Next1 \in todo /\ space' = With(space, Next1, result)
  BY DEF Step, Next1
<1>3. (pc' = pc /\ todo' = todo \ {Next1}) \/ (pc' = "failed" /\ todo' = todo)
  <2>1. IF Ok(result) THEN pc' = pc /\ todo' = todo \ {Next1}
        ELSE pc' = "failed" /\ UNCHANGED todo
    BY DEF Step
  <2> QED
    BY <2>1
<1>4. pc \notin {"validate", "refused"} /\ pc \in Building /\ pc' \notin Range(Blocks)
  BY <1>2, <1>3, StageNames DEF Building
<1>5. CASE pc' = "failed" /\ todo' = todo
  BY <1>1, <1>4, <1>5, StageNames DEF Builds, Building
<1>6. CASE pc' = pc /\ todo' = todo \ {Next1}
  <2>1. ASSUME NEW n \in Nodes, pc = "namespaces" => n \notin todo'
        PROVE  n \in DOMAIN space' /\ Formed(space'[n]) /\ Origin(plan, n, space'[n]) /\ Fresh(space'[n])
    <3>1. CASE n = Next1
      BY <1>2, <3>1 DEF With
    <3>2. CASE n # Next1
      <4>1. n \in DOMAIN space /\ Formed(space[n]) /\ Origin(plan, n, space[n]) /\ Fresh(space[n])
        BY <1>2, <1>4, <1>6, <2>1, <3>2 DEF Builds, Untouched
      <4>2. n \in DOMAIN space' /\ space'[n] = space[n]
        BY <1>2, <3>2, <4>1 DEF With
      <4> QED
        BY <4>1, <4>2
    <3> QED
      BY <3>1, <3>2
  <2> QED
    BY <1>1, <1>2, <1>4, <1>6, <2>1 DEF Builds
<1> QED
  BY <1>3, <1>5, <1>6

LEMMA StagesBuild ==
  ASSUME Builds, [Next]_vars, CreateNamespaces \/ CreateBridges \/ CreatePairs
  PROVE  Builds'
<1>1. Next1 \in todo /\ todo \subseteq Nodes
  BY DEF Builds, CreateNamespaces, CreateBridges, CreatePairs, Step, Next1
<1>2. CASE CreateNamespaces
  <2>1. Formed(CreateNamespace) /\ Origin(plan, Next1, CreateNamespace) /\ Fresh(CreateNamespace)
    BY CreatedNamespace
  <2> QED
    BY <1>2, <2>1, StepBuilds DEF CreateNamespaces
<1>3. pc \in {"bridges", "veths"} => Formed(space[Next1]) /\ Origin(plan, Next1, space[Next1]) /\ Fresh(space[Next1])
  BY <1>1, StageNames DEF Builds, Untouched, Building
<1>4. CASE CreateBridges
  <2> DEFINE result == CreateBridge(plan.nodes[Next1], space[Next1])
  <2>1. Formed(result) /\ Origin(plan, Next1, result) /\ Fresh(result)
    BY <1>3, <1>4, CreatedBridge DEF CreateBridges, Step
  <2>2. Step("bridges", result)
    BY <1>4 DEF CreateBridges
  <2> HIDE DEF result
  <2> QED
    BY <2>1, <2>2, StepBuilds
<1>5. CASE CreatePairs
  <2> DEFINE result == CreateVeths(plan, Next1, space[Next1])
  <2>0. pc = "veths"
    BY <1>5 DEF CreatePairs, Step
  <2>1. Formed(result) /\ Origin(plan, Next1, result) /\ Fresh(result)
    <3>1. Planned(plan, Next1)
      BY <1>1, <2>0, NodesArePlanned DEF Builds
    <3> QED
      BY <1>3, <2>0, <3>1, CreatedVeths
  <2>2. Step("veths", result)
    BY <1>5 DEF CreatePairs
  <2> HIDE DEF result
  <2> QED
    BY <2>1, <2>2, StepBuilds
<1> QED
  BY <1>2, <1>4, <1>5

LEMMA BlockBuilds ==
  ASSUME Builds, Configure
  PROVE  LET ns == space[Next1] r == Perform(pc, Next1, ns) IN
         /\ Next1 \in Nodes /\ Next1 \in todo /\ pc \in Range(Blocks)
         /\ space' = With(space, Next1, r)
         /\ Formed(r) /\ Origin(plan, Next1, r) /\ Adds(ns, r) /\ (pc \notin Late => Fresh(r))
<1>1. Next1 \in todo /\ todo \subseteq Nodes /\ pc \in Range(Blocks)
  BY DEF Configure, Builds, Next1
<1>2. Accepted(manifest) /\ manifest \in Manifests
  BY <1>1, StageNames DEF Builds
<1>3. Planned(plan, Next1)
  BY <1>1, <1>2, NodesArePlanned
<1>4. /\ Formed(space[Next1]) /\ Origin(plan, Next1, space[Next1])
      /\ pc \notin Late => Fresh(space[Next1])
  BY <1>1, StageNames DEF Builds, Building, Untouched
<1>5. space' = With(space, Next1, Perform(pc, Next1, space[Next1]))
  BY DEF Configure
<1> QED
  BY <1>1, <1>3, <1>4, <1>5, PerformKeeps

LEMMA ConfigureBuilds ==
  ASSUME Builds, [Next]_vars, Configure
  PROVE  Builds'
<1> DEFINE r == Perform(pc, Next1, space[Next1])
<1>1. manifest' = manifest /\ plan' = plan /\ Nodes' = Nodes
  BY PlanKept
<1>2. /\ Next1 \in Nodes /\ Next1 \in todo /\ pc \in Range(Blocks)
      /\ space' = With(space, Next1, r)
      /\ Formed(r) /\ Origin(plan, Next1, r) /\ (pc \notin Late => Fresh(r))
  BY BlockBuilds
<1>3. /\ pc' \in {After(pc), "failed"}
      /\ todo' = IF pc' = "configure" THEN todo \ {Next1} ELSE todo
  BY DEF Configure
<1> HIDE DEF r
<1>4. /\ pc' \in Range(Blocks) \cup {"configure", "failed"}
      /\ pc' \in Range(Blocks) \ Late => pc \notin Late
  BY <1>2, <1>3, AfterABlock, StageNames
<1>5. ASSUME NEW n \in Nodes
      PROVE  /\ n \in DOMAIN space' /\ Formed(space'[n]) /\ Origin(plan, n, space'[n])
             /\ pc' # "failed" /\ n \in todo' /\ (n = Next1' => pc' \notin Late) => Fresh(space'[n])
  <2>1. CASE n = Next1
    <3>1. space'[n] = r /\ n \in DOMAIN space'
      BY <1>2, <2>1 DEF With
    <3>2. pc' # "failed" /\ n \in todo' => pc' \in Range(Blocks) /\ Next1' = Next1
      BY <1>3, <1>4, <2>1 DEF Next1
    <3> QED
      BY <1>2, <1>4, <2>1, <3>1, <3>2
  <2>2. CASE n # Next1
    <3>1. /\ n \in DOMAIN space /\ Formed(space[n]) /\ Origin(plan, n, space[n])
          /\ n \in todo => Fresh(space[n])
      BY <1>2, <2>2, StageNames DEF Builds, Building, Untouched
    <3>2. n \in DOMAIN space' /\ space'[n] = space[n]
      BY <1>2, <2>2, <3>1 DEF With
    <3> QED
      BY <1>3, <3>1, <3>2
  <2> QED
    BY <2>1, <2>2
<1>6. pc \notin {"validate", "refused"}
  BY <1>2, StageNames
<1>7. /\ todo' \subseteq Nodes /\ (pc' \in Range(Blocks) => todo' # {})
      /\ pc' \notin {"namespaces", "bridges", "veths", "verify", "deployed"}
      /\ "failed" \notin Building
  BY <1>2, <1>3, <1>4, StageNames DEF Builds, Building
<1>8. (pc \notin {"validate", "refused"} => Accepted(manifest)) /\ manifest \in Manifests
  BY DEF Builds
<1>9. ASSUME NEW n \in Nodes, Untouched(n)'
      PROVE  n \in todo' /\ (n = Next1' => pc' \notin Late)
  BY <1>7, <1>9 DEF Untouched
<1> QED
  BY <1>1, <1>5, <1>6, <1>7, <1>8, <1>9 DEF Builds

(* The stages that leave the namespaces alone.                              *)
LEMMA ProceedBuilds ==
  ASSUME Builds, [Next]_vars, Proceed
  PROVE  Builds'
<1>1. manifest' = manifest /\ plan' = plan /\ Nodes' = Nodes
  BY PlanKept
<1>2. /\ todo = {} /\ todo' = Nodes /\ space' = space
      /\ pc \in {"namespaces", "bridges", "veths"} /\ pc' \in {"bridges", "veths", "configure"}
  BY DEF Proceed, Steps
<1>3. /\ pc \notin {"validate", "refused"} /\ pc \in Building /\ pc' \notin Range(Blocks)
      /\ pc' \notin {"verify", "deployed", "namespaces"}
  BY <1>2, StageNames DEF Building
<1>4. \A n \in Nodes : /\ n \in DOMAIN space /\ Formed(space[n]) /\ Origin(plan, n, space[n])
                       /\ Fresh(space[n])
  BY <1>2, <1>3 DEF Builds, Untouched
<1> QED
  BY <1>1, <1>2, <1>3, <1>4 DEF Builds

LEMMA StartNodeBuilds ==
  ASSUME Builds, [Next]_vars, StartNode
  PROVE  Builds'
<1>1. manifest' = manifest /\ plan' = plan /\ Nodes' = Nodes
  BY PlanKept
<1>2. /\ todo # {} /\ todo' = todo /\ space' = space
      /\ pc = "configure" /\ pc' = "interfaces"
  BY DEF StartNode, Blocks
<1>3. /\ pc \notin {"validate", "refused"} /\ pc \in Building /\ pc \notin Late
      /\ pc' \notin {"verify", "deployed", "namespaces", "bridges", "veths"}
  BY <1>2, StageNames DEF Building, Late
<1>4. \A n \in Nodes : /\ n \in DOMAIN space /\ Formed(space[n]) /\ Origin(plan, n, space[n])
                       /\ n \in todo => Fresh(space[n])
  BY <1>2, <1>3 DEF Builds, Untouched
<1>5. \A n \in Nodes : Untouched(n)' => n \in todo
  BY <1>1, <1>2, <1>3 DEF Untouched
<1> QED
  BY <1>1, <1>2, <1>3, <1>4, <1>5 DEF Builds

LEMMA StartRoutingBuilds ==
  ASSUME Builds, [Next]_vars, StartRouting
  PROVE  Builds'
<1>1. manifest' = manifest /\ plan' = plan /\ Nodes' = Nodes
  BY PlanKept
<1>2. pc = "configure" /\ todo = {} /\ pc' = "verify" /\ todo' = todo
  BY DEF StartRouting
<1> DEFINE Mk(n) == IF Ignored(plan.nodes[n]) # {} THEN Pimreg(space[n]) ELSE space[n]
<1>3. PICK learners \in SUBSET {n \in Nodes : plan.nodes[n].routing # None} :
        space' = [n \in Nodes |-> IF n \in learners THEN Learn(Mk(n)) ELSE Mk(n)]
  BY DEF StartRouting
<1>4. /\ pc \notin {"validate", "refused"} /\ pc \in Building /\ pc # "namespaces"
      /\ pc' \notin Building
  BY <1>2, StageNames DEF Building
<1>5. ASSUME NEW n \in Nodes PROVE Settled(plan, n, Mk(n))
  <2>1. Formed(space[n]) /\ Origin(plan, n, space[n])
    BY <1>4 DEF Builds
  <2>2. Formed(Mk(n)) /\ Origin(plan, n, Mk(n))
    BY <2>1, PimregSettles
  <2>3. Ignored(plan.nodes[n]) # {} =>
          "pimreg" \in DOMAIN Mk(n).links /\ Mk(n).links["pimreg"] = PimregLink
    BY <2>1, PimregSettles
  <2> HIDE DEF Mk
  <2> QED
    BY <2>2, <2>3 DEF Settled, Origin
<1> HIDE DEF Mk
<1>6. DOMAIN space' = Nodes /\ \A n \in Nodes : Settled(plan, n, space'[n])
  BY <1>3, <1>5, LearnSettles
<1> QED
  BY <1>1, <1>2, <1>4, <1>6 DEF Builds, Building

LEMMA VerifyBuilds ==
  ASSUME Builds, [Next]_vars, Verify
  PROVE  Builds'
<1>1. manifest' = manifest /\ plan' = plan /\ Nodes' = Nodes
  BY PlanKept
<1>2. pc = "verify" /\ pc' \in {"deployed", "unsupported", "mismatch"} /\ todo' = todo /\ space' = space
  BY DEF Verify
<1>3. pc' \notin Building
  BY <1>2, StageNames DEF Building
<1> QED
  BY <1>1, <1>2, <1>3 DEF Builds, Building

LEMMA BeforeBuilds ==
  ASSUME Builds, [Next]_vars, Refuse \/ Accept \/ Crash \/ Compile
  PROVE  Builds'
<1>1. manifest' = manifest /\ plan' = plan /\ Nodes' = Nodes
  BY PlanKept
<1>2. CASE Refuse
  BY <1>1, <1>2, StageNames DEF Builds, Refuse, Building
<1>3. CASE Accept
  BY <1>1, <1>3, StageNames DEF Builds, Accept, Building
<1>4. CASE Crash
  BY <1>1, <1>4, StageNames DEF Builds, Crash, Building
<1>5. CASE Compile
  BY <1>1, <1>5, StageNames DEF Builds, Compile, Building
<1> QED
  BY <1>2, <1>3, <1>4, <1>5

LEMMA AfterwardsBuilds ==
  ASSUME Builds, [Next]_vars, Drift \/ Lose \/ Replace \/ Strand
  PROVE  Builds'
<1>1. manifest' = manifest /\ plan' = plan /\ Nodes' = Nodes
  BY PlanKept
<1>2. pc = "deployed" /\ pc' = "drifted" /\ todo' = todo
  BY DEF Drift, Lose, Replace, Strand
<1>3. pc' \notin Building
  BY <1>2, StageNames DEF Building
<1> QED
  BY <1>1, <1>2, <1>3 DEF Builds, Building

LEMMA NextBuilds == Builds /\ [Next]_vars => Builds'
<1> SUFFICES ASSUME Builds, [Next]_vars PROVE Builds'
  OBVIOUS
<1>1. CASE UNCHANGED vars
  BY <1>1 DEF vars, Builds, Untouched, Next1, plan, Nodes
<1> QED
  BY <1>1, BeforeBuilds, StagesBuild, ProceedBuilds, StartNodeBuilds, ConfigureBuilds,
     StartRoutingBuilds, VerifyBuilds, AfterwardsBuilds DEF Next, Finished

(* What each block of configure_node finds and leaves, at every stage.      *)
THEOREM BuildsAlways == Spec => []Builds
<1>1. Init => Builds
  BY InitBuilds
<1>2. Builds /\ [Next]_vars => Builds'
  BY NextBuilds
<1> QED
  BY <1>1, <1>2, PTL DEF Spec

(* No block of configure_node undoes what an earlier one did, whatever the  *)
(* manifest and whichever request the kernel refuses: addresses, routes,    *)
(* neighbors and rules stay, and what has addresses stays up, although      *)
(* bonds and VRFs take their members down (pyroute2.py:1604-2213).          *)
THEOREM NothingIsUndone == Spec => NothingUndone
<1> DEFINE A == \A n \in Nodes : pc \in Range(Blocks) => Adds(space[n], space'[n])
<1>1. Builds /\ [Next]_vars => A \/ UNCHANGED vars
  <2> SUFFICES ASSUME Builds, Next, NEW n \in Nodes, pc \in Range(Blocks)
               PROVE  Adds(space[n], space'[n])
    OBVIOUS
  <2>1. pc \notin {"validate", "compile", "configure", "verify", "deployed"} \cup Range(Steps) \cup Ends
    BY StageNames DEF Ends
  <2>2. CASE Configure
    <3> DEFINE r == Perform(pc, Next1, space[Next1])
    <3>1. space' = With(space, Next1, r) /\ Adds(space[Next1], r)
      BY <2>2, BlockBuilds
    <3> HIDE DEF r
    <3>2. n \in DOMAIN space
      BY StageNames DEF Builds, Building
    <3>3. CASE n = Next1
      BY <3>1, <3>3 DEF With
    <3>4. CASE n # Next1
      <4>1. space'[n] = space[n]
        BY <3>1, <3>2, <3>4 DEF With
      <4> QED
        BY <4>1 DEF Adds
    <3> QED
      BY <3>3, <3>4
  <2>3. CASE Finished
    BY <2>1, <2>3 DEF Finished
  <2>4. ~(Refuse \/ Accept \/ Crash \/ Compile)
    BY <2>1 DEF Refuse, Accept, Crash, Compile
  <2>5. ~(CreateNamespaces \/ CreateBridges \/ CreatePairs)
    BY <2>1, StageNames DEF CreateNamespaces, CreateBridges, CreatePairs, Step
  <2>6. ~Proceed
    BY <2>1 DEF Proceed, Steps, Range
  <2>7. ~(StartNode \/ StartRouting \/ Verify)
    BY <2>1 DEF StartNode, StartRouting, Verify
  <2>8. ~(Drift \/ Lose \/ Replace \/ Strand)
    BY <2>1 DEF Drift, Lose, Replace, Strand
  <2> QED
    BY <2>2, <2>3, <2>4, <2>5, <2>6, <2>7, <2>8 DEF Next
<1> QED
  BY <1>1, BuildsAlways, PTL DEF Spec, NothingUndone

(* The status and the differences of inspect agree at any time, whatever    *)
(* the manifest, through the build, the verdict and whatever somebody does  *)
(* afterwards (inspector.py:1490-1679, 1819-1899; base.py:489-816).         *)
THEOREM JudgesAlwaysAgree == Spec => []JudgesAgree
<1>1. ASSUME Builds, Known1, Told PROVE JudgesAgree
  <2> SUFFICES ASSUME Nodes # {}, ~Rounded(manifest), ~Reshaped
               PROVE  /\ report.status = "deployed" => report.differences = {}
                      /\ NodeDifference(None, "inventory.match") \notin report.differences
    BY DEF JudgesAgree
  <2> DEFINE found == LiveDifferences(plan, inventory) \cup StateDifferences(plan, inventory, recorded)
  <2>1. Nodes = DOMAIN plan.nodes /\ DOMAIN inventory.namespaces = DOMAIN plan.nodes
    BY DEF plan, Plan, Nodes, inventory, Inventory
  <2>2. None \notin DOMAIN plan.nodes
    BY <1>1, <2>1, ManifestsAssumption DEF Builds, IsManifest, Nodes
  <2>3. NodeDifference(None, "inventory.match") \notin found
    BY <2>2, PlaceholderIsNoDifference
  <2>4. report.status = Status(plan, inventory, recorded)
    BY DEF report, Inspect
  <2>5. CASE pc \in {"deployed", "drifted"}
    <3>1. Judged
      BY <1>1, <2>5, DeployedIsJudged DEF Told
    <3>2. report.status = "deployed" => report.differences = {}
      BY <2>4, <3>1, DeployedHasNoDifference DEF Judged, report
    <3>3. report.status \in {"degraded", "stale"} => report.differences = found
      BY <2>1, <3>1, VerdictsHaveReasons DEF Judged, report
    <3>4. report.status \in {"absent", "deployed", "degraded", "stale"}
      BY <2>4 DEF Status
    <3>5. report.status = "absent" => report.differences = {}
      BY DEF report, Inspect
    <3> QED
      BY <2>3, <3>2, <3>3, <3>4, <3>5
  <2>6. CASE pc \notin {"deployed", "drifted"}
    <3>1. recorded.status # "deployed"
      BY <1>1, <2>6 DEF Told
    <3>2. report.status # "deployed"
      BY <2>4, <3>1 DEF Status
    <3>3. CASE report.status = "absent"
      <4>1. report.differences = {}
        BY <3>3 DEF report, Inspect
      <4> QED
        BY <3>2, <4>1
    <3>4. CASE report.status # "absent"
      <4>1. StateDifferences(plan, inventory, recorded) # {}
        BY <2>4, <3>1, <3>4 DEF StateDifferences, Status
      <4>2. found # {}
        BY <4>1
      <4> HIDE DEF found
      <4>3. report.differences = found
        BY <3>4, <4>2 DEF report, Inspect, found
      <4> QED
        BY <2>3, <3>2, <4>3
    <3> QED
      BY <3>3, <3>4
  <2> QED
    BY <2>5, <2>6
<1>2. Init => Told
  BY DEF Init, Told, NoSnapshot
<1>3. Builds /\ Known1 /\ Told /\ [Next]_vars => Told'
  BY NextTold
<1> QED
  BY <1>1, <1>2, <1>3, BuildsAlways, KnownAlways, PTL DEF Spec

(* How a topology comes to be changed.                                      *)
LEMMA WaysToDrift ==
  ASSUME [Next]_vars, pc' = "drifted"
  PROVE  UNCHANGED vars \/ Drift \/ Lose \/ Replace \/ Strand
<1>1. ~(Refuse \/ Accept \/ Crash \/ Compile)
  BY DEF Refuse, Accept, Crash, Compile
<1>2. ~(CreateNamespaces \/ CreateBridges \/ CreatePairs)
  BY DEF CreateNamespaces, CreateBridges, CreatePairs, Step
<1>3. ~Proceed
  BY DEF Proceed, Steps
<1>4. ~StartNode
  BY DEF StartNode, Blocks
<1>5. ~Configure
  <2> SUFFICES ASSUME Configure PROVE FALSE
    OBVIOUS
  <2>1. pc \in Range(Blocks) /\ pc' \in {"failed", After(pc)}
    BY DEF Configure
  <2>2. After(pc) # "drifted"
    BY <2>1, StageNames, AfterABlock
  <2> QED
    BY <2>1, <2>2
<1>6. ~(StartRouting \/ Verify)
  BY DEF StartRouting, Verify
<1> QED
  BY <1>1, <1>2, <1>3, <1>4, <1>5, <1>6 DEF Next, Finished

LEMMA SeenIsToldOf ==
  ASSUME plan' = plan, recorded' = recorded, NEW n, NEW c,
         drift' = [node |-> n, change |-> c], pc' = "drifted",
         Concerns(plan.nodes[n], c) \in BOOLEAN,
         Seen(Inventory(plan, space', root'), n, c)
  PROVE  DriftIsSeen'
<1> DEFINE inv == Inventory(plan, space', root')
           told == Inspect(plan, inv, recorded)
<1>1. report' = told
  BY DEF report, inventory
<1>2. told.status = Status(plan, inv, recorded) /\ told.impacted = Impacted(plan, Found(inv))
  BY DEF Inspect, Found
<1>3. drift'.node = n /\ drift'.change = c
  OBVIOUS
<1>4. Reshaped' <=> c.do = "options"
  BY <1>3 DEF Reshaped
<1> HIDE DEF inv, told
<1>5. /\ told.status # "deployed" <=> Concerns(plan.nodes[n], c)
      /\ Concerns(plan.nodes[n], c) /\ c.do # "options" => n \in told.impacted
  BY <1>2 DEF Seen, inv
<1>6. (told.status # "deployed") = Concerns(plan.nodes[n], c)
  BY <1>5
<1> QED
  BY <1>1, <1>3, <1>4, <1>5, <1>6 DEF DriftIsSeen

LEMMA DriftIsToldOf ==
  ASSUME Builds, Known1, Drift, plan' = plan
  PROVE  DriftIsSeen'
<1>1. /\ pc = "deployed" /\ pc' = "drifted" /\ recorded' = recorded /\ root' = root
      /\ DOMAIN space = Nodes
  BY DEF Drift, Builds
<1>2. PICK n \in Nodes : \E c \in Changes(space[n]) :
        /\ space' = [space EXCEPT ![n] = Changed(@, c)]
        /\ drift' = [node |-> n, change |-> c]
  BY DEF Drift
<1>3. PICK c \in Changes(space[n]) :
        /\ space' = [space EXCEPT ![n] = Changed(@, c)]
        /\ drift' = [node |-> n, change |-> c]
  BY <1>2
<1>4. /\ DOMAIN space' = DOMAIN space /\ space'[n] = Changed(space[n], c)
      /\ \A m \in DOMAIN space : m # n => space'[m] = space[m]
  BY <1>1, <1>3
<1>5. Seen(Inventory(plan, space', root), n, c)
  BY <1>1, <1>4, ChangeIsSeen
<1>6. Concerns(plan.nodes[n], c) \in BOOLEAN
  BY <1>1, VerifiedNodes, ConcernsIsBoolean
<1> QED
  BY <1>1, <1>3, <1>5, <1>6, SeenIsToldOf

LEMMA LossIsToldOf ==
  ASSUME Builds, Known1, Lose, plan' = plan
  PROVE  DriftIsSeen'
<1>1. pc = "deployed" /\ pc' = "drifted" /\ recorded' = recorded /\ root' = root
  BY DEF Lose
<1>2. PICK lost \in SUBSET Nodes : \E n \in lost :
        DOMAIN space' = Nodes \ lost /\ drift' = [node |-> n, change |-> Change("lose", n, None)]
  BY DEF Lose
<1>3. PICK n \in lost : DOMAIN space' = Nodes \ lost /\ drift' = [node |-> n, change |-> Change("lose", n, None)]
  BY <1>2
<1> DEFINE c == Change("lose", n, None)
<1>4. c.do = "lose"
  BY DEF Change
<1>5. n \in Nodes /\ n \notin DOMAIN space' /\ drift' = [node |-> n, change |-> c]
  BY <1>3
<1> HIDE DEF c
<1>6. Seen(Inventory(plan, space', root), n, c)
  BY <1>1, <1>4, <1>5, LoseIsSeen
<1>7. Concerns(plan.nodes[n], c)
  BY <1>4, RestConcerns
<1> QED
  BY <1>1, <1>5, <1>6, <1>7, SeenIsToldOf

LEMMA ReplacementIsToldOf ==
  ASSUME Builds, Known1, Replace, plan' = plan
  PROVE  DriftIsSeen'
<1>1. pc = "deployed" /\ pc' = "drifted" /\ recorded' = recorded /\ root' = root
  BY DEF Replace
<1>2. PICK k \in DOMAIN plan.links :
        /\ space' = [n \in Nodes |-> [space[n] EXCEPT !.links = [i \in DOMAIN @ |->
             IF <<n, i>> \in EndsOf(plan.links[k]) THEN [@[i] EXCEPT !.alias = 0] ELSE @[i]]]]
        /\ drift' = [node |-> plan.links[k].left[1], change |-> Change("replace", k, None)]
  BY DEF Replace
<1> DEFINE n == plan.links[k].left[1]
           c == Change("replace", k, None)
<1>3. c.do = "replace" /\ drift' = [node |-> n, change |-> c]
  BY <1>2 DEF Change
<1>4. /\ DOMAIN space' = Nodes
      /\ \A m \in Nodes : space'[m] = [space[m] EXCEPT !.links = [i \in DOMAIN @ |->
           IF <<m, i>> \in EndsOf(plan.links[k]) THEN [@[i] EXCEPT !.alias = 0] ELSE @[i]]]
  BY <1>2
<1> HIDE DEF c
<1>5. Seen(Inventory(plan, space', root), n, c)
  BY <1>1, <1>3, <1>4, ReplaceIsSeen
<1>6. Concerns(plan.nodes[n], c)
  BY <1>3, RestConcerns
<1> HIDE DEF n
<1> QED
  BY <1>1, <1>3, <1>5, <1>6, SeenIsToldOf

LEMMA StrandingIsToldOf ==
  ASSUME Builds, Known1, Strand, plan' = plan
  PROVE  DriftIsSeen'
<1>1. pc = "deployed" /\ pc' = "drifted" /\ recorded' = recorded /\ space' = space
  BY DEF Strand
<1>2. PICK k \in DOMAIN plan.links : \E e \in EndsOf(plan.links[k]) :
        root' = {e} /\ drift' = [node |-> e[1], change |-> Change("strand", e, None)]
  BY DEF Strand
<1>3. PICK e \in EndsOf(plan.links[k]) :
        root' = {e} /\ drift' = [node |-> e[1], change |-> Change("strand", e, None)]
  BY <1>2
<1> DEFINE c == Change("strand", e, None)
<1>4. c.do = "strand" /\ drift' = [node |-> e[1], change |-> c]
  BY <1>3 DEF Change
<1> HIDE DEF c
<1>5. Seen(Inventory(plan, space, {e}), e[1], c)
  BY <1>1, <1>4, StrandIsSeen
<1>6. Concerns(plan.nodes[e[1]], c)
  BY <1>4, RestConcerns
<1> QED
  BY <1>1, <1>3, <1>4, <1>5, <1>6, SeenIsToldOf

(* Whatever somebody changes of a deployed topology, inspect tells if the   *)
(* plan speaks of it and only then, and blames the node it is in, whatever  *)
(* the manifest (inspector.py:1490-1679, 1819-1899; base.py:489-816; the    *)
(* reading of the kernel in pyroute2.py:2690-3410).                         *)
THEOREM DriftIsAlwaysSeen == Spec => []DriftIsSeen
<1>1. Init => DriftIsSeen
  BY DEF Init, DriftIsSeen
<1>2. Builds /\ Known1 /\ DriftIsSeen /\ [Next]_vars => DriftIsSeen'
  <2> SUFFICES ASSUME Builds, Known1, DriftIsSeen, [Next]_vars, pc' = "drifted"
               PROVE  DriftIsSeen'
    BY DEF DriftIsSeen
  <2>1. plan' = plan
    BY PlanKept
  <2>2. CASE UNCHANGED vars
    BY <2>1, <2>2 DEF vars, DriftIsSeen, Reshaped, report, inventory
  <2> QED
    BY <2>1, <2>2, WaysToDrift, DriftIsToldOf, LossIsToldOf, ReplacementIsToldOf, StrandingIsToldOf
<1> QED
  BY <1>1, <1>2, BuildsAlways, KnownAlways, PTL DEF Spec
=============================================================================
