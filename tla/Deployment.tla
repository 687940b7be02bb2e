----------------------------- MODULE Deployment -----------------------------
(***************************************************************************)
(* One deploy of a manifest, from the validator to the verdict, and what   *)
(* inspect says afterwards: the calls DeploymentService._deploy_locked     *)
(* makes on the way (src/nslab/lifecycle.py), with what Lifecycle.tla      *)
(* leaves out of them, the contents of the namespaces.  Everything works   *)
(* here unless the kernel refuses a request as such; failures, rollback    *)
(* and the journal are Lifecycle.tla's.  Once deployed, somebody may       *)
(* change one thing.                                                       *)
(***************************************************************************)
EXTENDS Inspection

CONSTANT Manifests      \* the manifests somebody may deploy

(* The types manifest.py gives a manifest: every node and every bond has    *)
(* every field, because the classes give a default to what nslab.yaml does  *)
(* not say; names are names; what is a tuple there is a sequence, and what  *)
(* is a mapping is finite.                                                  *)
NodeFields == {"kind", "interfaces", "devices", "routes", "neighbors", "rules", "sysctls",
               "routing", "bridge"}
BondFields == {"type", "addrs", "mac", "interfaces", "mode", "miimon", "primary", "lacp_rate",
               "xmit_hash_policy", "min_links"}
DeviceTypes == {"bond", "vrf", "dummy"} \cup Stacked
IsSequence(s)   == s \in Seq(Range(s))
IsAddressSet(S) == IsFiniteSet(S) /\ \A a \in S : a.v \in {4, 6}
IsDevice(d) ==
  /\ d.type \in DeviceTypes
  /\ d.type = "bond" => BondFields \subseteq DOMAIN d
  /\ d.type \in {"bond", "vrf"} => IsSequence(d.interfaces)
IsBridge(b) ==
  /\ b # None /\ b.name # None /\ b.vlan_filtering \in BOOLEAN
  /\ \A p \in Range(b.ports) : IsSequence(p.vlans) /\ \A v \in Range(p.vlans) : v.vid \in Int
IsNode(node) ==
  /\ NodeFields \subseteq DOMAIN node
  /\ node.kind \in {"linux", "bridge"} /\ (node.kind = "bridge" => IsBridge(node.bridge))
  /\ IsFiniteSet(DOMAIN node.interfaces) /\ IsFiniteSet(DOMAIN node.devices)
  /\ None \notin DOMAIN node.interfaces \cup DOMAIN node.devices
  /\ \A d \in DOMAIN node.devices : IsDevice(node.devices[d])
  /\ \A i \in Interfaces(node) : IsAddressSet(AddressesOf(node, i))
  /\ IsSequence(node.routes)
  /\ \A r \in Range(node.routes) :
       {"dst", "via", "dev", "nexthops", "table"} \subseteq DOMAIN r /\ r.dst.v \in {4, 6}
  /\ IsFiniteSet(node.rules) /\ IsFiniteSet(node.neighbors) /\ IsFiniteSet(DOMAIN node.sysctls)
  /\ \A b \in node.neighbors : {"dst", "dev", "lladdr", "state", "proxy"} \subseteq DOMAIN b
IsManifest(m) ==
  /\ {"nodes", "links"} \subseteq DOMAIN m
  /\ None \notin DOMAIN m.nodes /\ \A n \in DOMAIN m.nodes : IsNode(m.nodes[n])
  /\ IsSequence(m.links)
  /\ \A link \in Range(m.links) :
       /\ \A e \in EndsOf(link) : e = <<e[1], e[2]>> /\ e[2] # None
       /\ link.netem # None => link.netem.kind = "netem"
ASSUME ManifestsAssumption == \A m \in Manifests : IsManifest(m)

VARIABLES
  manifest,             \* nslab.yaml
  pc,                   \* the stage deploy is in, or how it ended
  todo,                 \* the nodes this stage has yet to come to
  space,                \* the namespaces there are: node -> namespace
  root,                 \* link ends still in the root namespace
  recorded,             \* the snapshot
  drift                 \* what somebody changed: [node, change], or None

vars == <<manifest, pc, todo, space, root, recorded, drift>>

Nodes == DOMAIN manifest.nodes
plan  == Plan(manifest)

(* Mutant: the members of VRFs are taken down after the addresses.          *)
MembersLast == <<"interfaces", "bonds", "vrfs", "vlan", "vxlan", "dummy", "gre", "ipip", "geneve",
                 "macvlan", "ipvlan", "macs", "ports", "addresses", "members", "routes",
                 "neighbors", "rules", "sysctls">>
(* The stages between which a configure_node may be seen at work.           *)
Blocks == <<"interfaces", "bonds", "vrfs", "vlan", "vxlan", "dummy", "gre", "ipip", "geneve",
            "macvlan", "ipvlan", "macs", "members", "ports", "addresses", "routes",
            "neighbors", "rules", "sysctls">>
Ends == {"refused", "crashed", "failed", "unsupported", "mismatch", "deployed", "drifted"}
Steps  == <<"namespaces", "bridges", "veths", "configure">>
Stages == {"validate", "compile", "verify"} \cup Range(Steps) \cup Range(Blocks)

Init ==
  /\ manifest \in Manifests
  /\ pc = "validate" /\ todo = {} /\ space = << >> /\ root = {} /\ recorded = NoSnapshot
  /\ drift = None

-----------------------------------------------------------------------------
(* The way to a deployment.                                                 *)

Refuse ==
  /\ pc = "validate" /\ ~Accepted(manifest)
  /\ pc' = "refused"
  /\ UNCHANGED <<manifest, todo, space, root, recorded, drift>>
Accept ==
  /\ pc = "validate" /\ Accepted(manifest)
  /\ pc' = "compile"
  /\ UNCHANGED <<manifest, todo, space, root, recorded, drift>>

Crash ==
  /\ pc = "compile" /\ ~Compiles(manifest)
  /\ pc' = "crashed"
  /\ UNCHANGED <<manifest, todo, space, root, recorded, drift>>
Compile ==
  /\ pc = "compile" /\ Compiles(manifest)
  /\ pc' = "namespaces" /\ todo' = Nodes
  /\ recorded' = SnapshotFor(manifest, "deploying", UnknownIds(plan))
  /\ UNCHANGED <<manifest, space, root, drift>>

(* A stage goes from node to node; the first failure ends them all.         *)
Next1 == CHOOSE n \in todo : TRUE
Step(stage, result) ==
  /\ pc = stage /\ todo # {}
  /\ space' = With(space, Next1, result)
  /\ IF Ok(result) THEN pc' = pc /\ todo' = todo \ {Next1}
     ELSE pc' = "failed" /\ UNCHANGED todo
  /\ UNCHANGED <<manifest, root, recorded, drift>>
CreateNamespaces == Step("namespaces", CreateNamespace)
CreateBridges    == Step("bridges", CreateBridge(plan.nodes[Next1], space[Next1]))
CreatePairs      == Step("veths", CreateVeths(plan, Next1, space[Next1]))

Proceed ==
  /\ todo = {}
  /\ \E k \in 1 .. 3 : pc = Steps[k] /\ pc' = Steps[k + 1]
  /\ todo' = Nodes
  /\ UNCHANGED <<manifest, space, root, recorded, drift>>

Perform(block, n, ns) ==
  LET node == plan.nodes[n] IN
  CASE block = "interfaces" -> IndexInterfaces(node, ns)
    [] block = "bonds"      -> AddBonds(plan, n, ns)
    [] block = "vrfs"       -> AddVrfs(node, ns)
    [] block \in Range(DeviceOrder) -> AddDevices(plan, n, block, ns)
    [] block = "macs"       -> SetDeviceMacs(node, ns)
    [] block = "members"    -> JoinVrfs(node, ns)
    [] block = "ports"      -> JoinBridge(plan, n, ns)
    [] block = "addresses"  -> AddAddresses(node, ns)
    [] block = "routes"     -> AddRoutes(node, ns)
    [] block = "neighbors"  -> AddNeighbors(node, ns)
    [] block = "rules"      -> AddRules(node, ns)
    [] block = "sysctls"    -> WriteSysctls(node, ns)

(* configure_node: all blocks for one node, then the next node.             *)
After(block) ==
  LET k == CHOOSE j \in DOMAIN Blocks : Blocks[j] = block IN
  IF k = Len(Blocks) THEN "configure" ELSE Blocks[k + 1]
StartNode ==
  /\ pc = "configure" /\ todo # {}
  /\ pc' = Blocks[1]
  /\ UNCHANGED <<manifest, todo, space, root, recorded, drift>>
Configure ==
  /\ pc \in Range(Blocks)
  /\ LET result == Perform(pc, Next1, space[Next1]) IN
     /\ space' = With(space, Next1, result)
     /\ pc' = IF Ok(result) THEN After(pc) ELSE "failed"
     /\ todo' = IF pc' = "configure" THEN todo \ {Next1} ELSE todo
  /\ UNCHANGED <<manifest, root, recorded, drift>>

(* The daemons of a PIM router make an interface, those of any router learn *)
(* routes, now or later.                                                    *)
Pimreg(ns) ==
  [ns EXCEPT !.links =
     With(@, "pimreg", [NewLink("unknown", 1472, "pimreg", NoData) EXCEPT !.up = TRUE])]
Learned    == RouteTo([v |-> 4, net |-> "learned"], "lo", Main)
Learn(ns)  == [ns EXCEPT !.routes = @ \cup {Learned}]
StartRouting ==
  /\ pc = "configure" /\ todo = {}
  /\ pc' = "verify"
  /\ \E learners \in SUBSET {n \in Nodes : plan.nodes[n].routing # None} :
       space' = [n \in Nodes |->
         LET made == IF Ignored(plan.nodes[n]) # {} THEN Pimreg(space[n]) ELSE space[n] IN
         IF n \in learners THEN Learn(made) ELSE made]
  /\ UNCHANGED <<manifest, todo, root, recorded, drift>>

inventory == Inventory(plan, space, root)
report    == Inspect(plan, inventory, recorded)

Verify ==
  /\ pc = "verify"
  /\ pc' = IF ~Supported(plan, space) THEN "unsupported"
           ELSE IF Matches(plan, inventory) THEN "deployed" ELSE "mismatch"
  /\ recorded' = IF pc' = "deployed"
                 THEN SnapshotFor(manifest, "deployed", IdsOf(plan, inventory))
                 ELSE recorded
  /\ UNCHANGED <<manifest, todo, space, root, drift>>

-----------------------------------------------------------------------------
(* The world afterwards: somebody changes one thing in one namespace.       *)

Foreign == [v |-> 4, net |-> "foreign", host |-> 9]

(* A change: what is done, to which object, and what it becomes.            *)
Change(do, at, to) == [do |-> do, at |-> at, to |-> to]
Without(f, S) == [y \in (DOMAIN f) \ S |-> f[y]]
Changed(ns, c) ==
  CASE c.do = "down"      -> SetDown(ns, c.at)
    [] c.do = "mtu"       -> [ns EXCEPT !.links[c.at].mtu = c.to]
    [] c.do = "mac"       -> [ns EXCEPT !.links[c.at].mac = c.to]
    [] c.do = "address"   -> [ns EXCEPT !.links[c.at].addrs = @ \cup {c.to}]
    [] c.do = "unaddress" -> [ns EXCEPT !.links[c.at].addrs = @ \ {c.to}]
    [] c.do = "release"   -> [ns EXCEPT !.links[c.at] = [@ EXCEPT !.master = None,
                                                        !.port = NoPort, !.vlans = {}]]
    [] c.do = "delete"    -> [ns EXCEPT !.links = Without(@, {c.at})]
    [] c.do = "vlan"      -> [ns EXCEPT !.links[c.at].vlans = {v \in @ : v.vid # c.to.vid} \cup {c.to}]
    [] c.do = "unvlan"    -> [ns EXCEPT !.links[c.at].vlans = {v \in @ : v.vid # c.to}]
    [] c.do = "flag"      -> [ns EXCEPT !.links[c.at].port[c.to[1]] = c.to[2]]
    [] c.do = "qdisc"     -> [ns EXCEPT !.links[c.at].qdisc = c.to]
    [] c.do = "options"   -> [ns EXCEPT !.links[c.at].qdisc.limit = c.to]
    [] c.do = "alias"     -> [ns EXCEPT !.links[c.at].alias = c.to]
    [] c.do = "unroute"   -> [ns EXCEPT !.routes = @ \ {c.at}]
    [] c.do = "route"     -> [ns EXCEPT !.routes = @ \cup {c.at}]
    [] c.do = "unrule"    -> [ns EXCEPT !.rules = @ \ {c.at}]
    [] c.do = "forget"    -> [ns EXCEPT !.neighbors = @ \ {c.at}]
    [] c.do = "age"       -> [ns EXCEPT !.neighbors = (@ \ {c.at}) \cup {[c.at EXCEPT !.state = c.to]}]
    [] c.do = "sysctl"    -> [ns EXCEPT !.sysctls[c.at] = c.to]

LinkChanges(ns) ==
  UNION {
    {Change("down", i, None), Change("mtu", i, 1400), Change("mac", i, "forged"),
     Change("address", i, Foreign), Change("release", i, None), Change("delete", i, None)}
    \cup {Change("unaddress", i, a) : a \in ns.links[i].addrs} : i \in DOMAIN ns.links}
PortChanges(ns) ==
  UNION {
    {Change("vlan", i, [vid |-> 77, pvid |-> FALSE, untagged |-> FALSE])}
    \cup {Change("unvlan", i, v.vid) : v \in ns.links[i].vlans}
    \cup UNION {{Change("flag", i, <<s, b>>) : b \in BOOLEAN \ {ns.links[i].port[s]}} :
                s \in {"hairpin", "isolated", "learning"}} :
    i \in {j \in DOMAIN ns.links : IsPort(ns, j)}}
VethChanges(ns) ==
  UNION {{Change("qdisc", i, None), Change("options", i, 2), Change("alias", i, 0)} :
         i \in {j \in DOMAIN ns.links : ns.links[j].kind = "veth"}}
PolicyChanges(ns) ==
  {Change("unroute", r, None) : r \in ns.routes}
  \cup {Change("route", RouteTo([v |-> 4, net |-> "foreign"], "lo", Main), None)}
  \cup {Change("unrule", r, None) : r \in ns.rules}
  \cup {Change("forget", b, None) : b \in ns.neighbors}
  \cup {Change("age", b, "stale") : b \in {c \in ns.neighbors : ~c.proxy}}
  \cup UNION {{Change("sysctl", k, x) : x \in {0, 1} \ {ns.sysctls[k]}} : k \in DOMAIN ns.sysctls}
(* Only what makes a difference is a change.                                *)
Changes(ns) ==
  {c \in LinkChanges(ns) \cup PortChanges(ns) \cup VethChanges(ns) \cup PolicyChanges(ns) :
     /\ c.do = "release" => ns.links[c.at].master # None
     /\ c.do = "qdisc"   => ns.links[c.at].qdisc # None
     /\ c.do = "options" => ns.links[c.at].qdisc # None /\ ns.links[c.at].qdisc.kind = "red"
     /\ c.do = "delete"  => ns.links[c.at].kind = "dummy"
     /\ c.do \in {"mtu", "mac", "down", "address"} =>
          c.at # "pimreg" /\ (c.do # "address" => c.at # "lo")
     /\ c.do = "age"     => c.at.state # "stale"
     /\ Changed(ns, c) # ns}

Drift ==
  /\ pc = "deployed" /\ pc' = "drifted"
  /\ \E n \in Nodes : \E c \in Changes(space[n]) :
       /\ space' = [space EXCEPT ![n] = Changed(@, c)]
       /\ drift' = [node |-> n, change |-> c]
  /\ UNCHANGED <<manifest, todo, root, recorded>>

(* Namespaces go, and with them the other ends of their pairs and what is   *)
(* stacked on those.                                                        *)
Lose ==
  /\ pc = "deployed" /\ pc' = "drifted"
  /\ \E lost \in (SUBSET Nodes) \ {{}} : \E n \in lost :
       /\ space' = [k \in Nodes \ lost |->
            LET gone == {i \in DOMAIN space[k].links :
                           \E l \in Range(plan.links) : <<k, i>> \in EndsOf(l)
                              /\ \E e \in EndsOf(l) : e[1] \in lost} IN
            [space[k] EXCEPT !.links = Without(@, gone \cup UNION {On(space[k], i) : i \in gone})]]
       /\ drift' = [node |-> n, change |-> Change("lose", n, None)]
  /\ UNCHANGED <<manifest, todo, root, recorded>>

(* Both ends of a pair get another identity: the pair was replaced.         *)
Replace ==
  /\ pc = "deployed" /\ pc' = "drifted"
  /\ \E k \in DOMAIN plan.links :
       /\ space' = [n \in Nodes |-> [space[n] EXCEPT !.links = [i \in DOMAIN @ |->
            IF <<n, i>> \in EndsOf(plan.links[k]) THEN [@[i] EXCEPT !.alias = 0]
            ELSE @[i]]]]
       /\ drift' = [node |-> plan.links[k].left[1], change |-> Change("replace", k, None)]
  /\ UNCHANGED <<manifest, todo, root, recorded>>

(* A half of a pair appears under its temporary name in the root namespace. *)
Strand ==
  /\ pc = "deployed" /\ pc' = "drifted"
  /\ \E k \in DOMAIN plan.links : \E e \in EndsOf(plan.links[k]) :
       /\ root' = {e}
       /\ drift' = [node |-> e[1], change |-> Change("strand", e, None)]
  /\ UNCHANGED <<manifest, todo, space, recorded>>

Finished == pc \in Ends /\ UNCHANGED vars

Next ==
  \/ Refuse \/ Accept \/ Crash \/ Compile
  \/ CreateNamespaces \/ CreateBridges \/ CreatePairs \/ Proceed \/ StartNode \/ Configure
  \/ StartRouting \/ Verify
  \/ Drift \/ Lose \/ Replace \/ Strand \/ Finished

Spec == Init /\ [][Next]_vars

-----------------------------------------------------------------------------
(* What the validators let through although it cannot be deployed.  Each    *)
(* gap is one reason; together they are all the reasons there are.          *)

ParentsOf(node) == {node.devices[d].link : d \in UNION {OfType(node, t) : t \in Stacked}}
StackedOn(node, i, type) == {d \in OfType(node, type) : node.devices[d].link = i}

(* An explicit table, and next hops in VRFs: compile_plan's assertion.      *)
SpansTables(m, n) == \E route \in Range(m.nodes[n].routes) : ~Infers(m.nodes[n], route)

(* An endpoint in a VRF that is not under interfaces: nothing brings it up  *)
(* again.                                                                   *)
LeftDown(m, n) ==
  \E f \in OfType(m.nodes[n], "vrf") :
    ~(Range(m.nodes[n].devices[f].interfaces) \subseteq Interfaces(m.nodes[n]))

(* Two of bond, macvlan and ipvlan want the frames of one device, or        *)
(* ipvlans its mode.                                                        *)
SharesParent(m, n) ==
  LET node == m.nodes[n] IN
  \E i \in ParentsOf(node) :
    \/ StackedOn(node, i, "macvlan") # {} /\ StackedOn(node, i, "ipvlan") # {}
    \/ /\ BondOf(node, i) # {}
       /\ StackedOn(node, i, "macvlan") \cup StackedOn(node, i, "ipvlan") # {}
    \/ Cardinality({node.devices[d].mode : d \in StackedOn(node, i, "ipvlan")}) > 1

(* Tunnels the kernel cannot tell apart.                                    *)
TwinTunnels(m, n) ==
  \E type \in {"gre", "ipip"} : \E d, e \in OfType(m.nodes[n], type) :
    LET one == DataOf(m.nodes[n].devices[d]) other == DataOf(m.nodes[n].devices[e]) IN
    d # e /\ [one EXCEPT !.ttl = None] = [other EXCEPT !.ttl = None]

(* A bond has one address, its own or its first member's.                   *)
MemberMac(m, n) ==
  LET macs == CompileMacs(m.nodes[n]) IN
  \E b \in OfType(m.nodes[n], "bond") :
    LET members == m.nodes[n].devices[b].interfaces
        top == IF b \in DOMAIN macs THEN b ELSE members[1] IN
    \E i \in Range(members) \cap DOMAIN macs : top \notin DOMAIN macs \/ macs[i] # macs[top]

(* An IPv6 address on a device that is narrower than IPv6 allows.           *)
PortWidth(m, n, i) ==
  IF i \in Linked(m.links, n) THEN MtuAt(m.links, n, i) ELSE DeviceMtu(Plan(m), n, i)
Width(m, n, i) ==
  LET node == m.nodes[n] IN
  IF i \in OfType(node, "vlan") THEN MtuAt(m.links, n, node.devices[i].link)
  ELSE IF node.kind = "bridge" /\ i = node.bridge.name
  THEN Min({1500} \cup {PortWidth(m, n, p) : p \in Ports(Plan(m), n)})
  ELSE PortWidth(m, n, i)
TooNarrow(m, n) ==
  \E i \in Interfaces(m.nodes[n]) :
    Width(m, n, i) < MinMtuV6 /\ \E a \in AddressesOf(m.nodes[n], i) : a.v = 6

(* VLANs that are not declared in the order of their numbers, which is the  *)
(* order they are read in.                                                  *)
Unsorted(m, n) ==
  /\ m.nodes[n].kind = "bridge" /\ m.nodes[n].bridge.vlan_filtering
  /\ \E p \in Range(m.nodes[n].bridge.ports) :
       \E i, j \in DOMAIN p.vlans : i < j /\ p.vlans[i].vid > p.vlans[j].vid

(* A proxied neighbor on a device with a dot in its name.                   *)
DottedProxy(m, n) == \E b \in m.nodes[n].neighbors : b.proxy /\ b.dev \in Dotted

(* A gateway that is on no network of its device.                           *)
NoWayTo(m, n) ==
  \E route \in Range(m.nodes[n].routes) : \E h \in Range(Hops(route)) :
    /\ h.via # None
    /\ \A a \in AddressesOf(m.nodes[n], h.dev) : Net(a) # Net(h.via)

(* Rules that match the mark zero, or are one of the namespace's own.       *)
ZeroMark(m, n)   == \E r \in m.nodes[n].rules : r.fwmark = 0
SystemRule(m, n) == \E r \in CompileNode(m.nodes[n]).rules : IsSystem(EmptyNs, r)

(* A token bucket that the kernel cannot hold, or rounds too far.           *)
Coarse(m, n) ==
  \E k \in DOMAIN m.links : n \in {e[1] : e \in EndsOf(m.links[k])} /\
    LET q == m.links[k].qdisc IN
    /\ q # None /\ q.kind = "tbf"
    /\ TooLong(q) \/ ~QdiscMatches(q, Decoded(Ticks(q)))

Gap(m) ==
  \E n \in DOMAIN m.nodes :
    \/ SpansTables(m, n) \/ LeftDown(m, n) \/ SharesParent(m, n) \/ TwinTunnels(m, n)
    \/ MemberMac(m, n) \/ TooNarrow(m, n) \/ Unsorted(m, n) \/ DottedProxy(m, n)
    \/ NoWayTo(m, n) \/ ZeroMark(m, n) \/ SystemRule(m, n) \/ Coarse(m, n)

(* A manifest that is accepted is deployed, unless it has one of the gaps,  *)
(* and then it is not: the validators, the plan, the nineteen blocks of     *)
(* configure_node, the decoding of what they left and the comparison with   *)
(* the plan agree with one another (manifest.py, planner.py, pyroute2.py,   *)
(* base.py).                                                                *)
AcceptedDeploys ==
  pc \in Ends \ {"refused"} => (pc \in {"deployed", "drifted"} <=> ~Gap(manifest))

(* Whether the change somebody made is to something the plan speaks of.     *)
Reshaped == pc = "drifted" /\ drift.change.do = "options"
Follows(node, i) ==    \* takes its MTU from elsewhere
  i = "lo" \/ (i \in DOMAIN node.devices /\ node.devices[i].type \in {"vlan", "vrf"})
    \/ (node.kind = "bridge" /\ i = node.bridge.name)
Concerns(node, c) ==
  CASE c.do = "mtu"     -> ~Follows(node, c.at)
    [] c.do = "mac"     -> c.at \in DOMAIN node.macs
    [] c.do = "flag"    -> c.at \in DOMAIN node.bridge.ports
                             /\ node.bridge.ports[c.at][c.to[1]] # None
    [] c.do \in {"vlan", "unvlan"} -> node.bridge.vlan_filtering
    [] c.do = "route"   -> node.routing = None
    [] c.do = "unroute" -> c.at \in Range(node.routes)
    [] c.do = "age"     -> c.at.state \notin Dynamic
    [] c.do = "sysctl"  -> c.at \in DOMAIN node.sysctls
    [] OTHER            -> TRUE

(* The snapshot passes the check that every later command begins with, in   *)
(* whichever state deploy ended or was left, and compiles to the same plan: *)
(* lifecycle.py:525 and snapshot.py:67 know the same identities, and what   *)
(* normalized_manifest makes of a manifest is accepted and means the same.  *)
RecordedIsValid ==
  recorded.status # "missing" => ValidSnapshot(recorded) /\ Plan(recorded.manifest) = plan

(* What deploy has verified, inspect calls deployed, as long as nobody      *)
(* changes it.  A topology without nodes, which the validators accept, is   *)
(* the exception: with nothing there it is absent, and its snapshot stale   *)
(* (inventory_matches_plan and _inventory_is_absent are both true of it).   *)
DeployedIsReported ==
  pc = "deployed" =>
    report.status = IF Nodes = {} THEN "stale" ELSE "deployed"

(* One change to a deployed topology, by anybody: inspect calls it degraded *)
(* or stale, and the node it was made in is among those it blames, exactly  *)
(* if the change is to something the plan speaks of (inspector.py, base.py, *)
(* and the reading of the kernel in pyroute2.py).                           *)
DriftIsSeen ==
  pc = "drifted" =>
    LET told == report IN
    /\ (told.status # "deployed") = Concerns(plan.nodes[drift.node], drift.change)
    /\ told.status # "deployed" /\ ~Reshaped => drift.node \in told.impacted

(* inspect decides twice: its status by inventory_matches_plan, its         *)
(* differences by a comparison of its own.  The two agree at any time, so   *)
(* that a topology called deployed has no difference and one that is not    *)
(* has a difference that says why; but for the token buckets of which only  *)
(* the first tolerates the rounding, and the options of simple qdiscs that  *)
(* only the first looks at.                                                 *)
Rounded(m) ==
  \E link \in Range(m.links) :
    /\ link.qdisc # None /\ link.qdisc.kind = "tbf"
    /\ TooLong(link.qdisc) \/ Decoded(Ticks(link.qdisc)) # link.qdisc
JudgesAgree ==
  Nodes # {} /\ ~Rounded(manifest) /\ ~Reshaped =>
    LET told == report IN
    /\ told.status = "deployed" => told.differences = {}
    /\ NodeDifference(None, "inventory.match") \notin told.differences

Adds(before, after) ==
  /\ before.routes \subseteq after.routes /\ before.neighbors \subseteq after.neighbors
  /\ before.rules \subseteq after.rules
  /\ \A i \in DOMAIN before.links :
       LET l == before.links[i] IN
       /\ i \in DOMAIN after.links /\ l.addrs \subseteq after.links[i].addrs
       /\ l.up /\ l.addrs # {} => after.links[i].up

(* configure_node undoes nothing it did: no address, route, neighbor or     *)
(* rule that a block adds is lost to a later one, and what has addresses    *)
(* stays up, although bonds and VRFs take their members down.               *)
NothingUndone ==
  [][\A n \in Nodes : pc \in Range(Blocks) => Adds(space[n], space'[n])]_vars
=============================================================================
