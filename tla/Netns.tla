-------------------------------- MODULE Netns -------------------------------
(***************************************************************************)
(* A network namespace as the requests of src/nslab/backend/pyroute2.py    *)
(* change it: the part of the Linux kernel the backend relies on, external *)
(* to nslab.  A request returns the namespace it leaves; one that fails    *)
(* leaves its errno in err, after which nothing else happens, because the  *)
(* first NetlinkError ends configure_node.                                 *)
(***************************************************************************)
EXTENDS Planner, FiniteSetsExt

Errnos == {"EBUSY", "EEXIST", "EINVAL", "ENETDOWN", "ENETUNREACH", "ENODEV", "ENOENT",
           "EOVERFLOW", "EPERM"}
ASSUME ErrnosAssumption == None \notin Errnos

Ok(ns) == ns.err = None
Fail(ns, errno) == [ns EXCEPT !.err = errno]
Request(ns, errno, result) ==
  IF ~Ok(ns) THEN ns ELSE IF errno # None THEN Fail(ns, errno) ELSE result

(* The function f, and y at x.                                              *)
With(f, x, y) == [z \in {x} \cup DOMAIN f |-> IF z = x THEN y ELSE f[z]]

Lower(l) == l.data.link
Known(ns, i) == i \in DOMAIN ns.links
On(ns, i) == {j \in DOMAIN ns.links : Lower(ns.links[j]) = i}
KindsOn(ns, i) == {ns.links[j].kind : j \in On(ns, i)}

NoData   == [link |-> None]
NoPort   == [s \in PortSettings |-> None]
BasePort == [path_cost |-> 2, priority |-> 32, hairpin |-> FALSE, isolated |-> FALSE,
             learning |-> TRUE, flood |-> TRUE, multicast_flood |-> TRUE]
Pvid1    == [vid |-> 1, pvid |-> TRUE, untagged |-> TRUE]

NewLink(kind, mtu, mac, data) ==
  [kind |-> kind, up |-> FALSE, mtu |-> mtu, mac |-> mac, addrs |-> {}, master |-> None,
   data |-> data, port |-> NoPort, vlans |-> {}, qdisc |-> None, alias |-> None]

DefaultRules ==
  {[priority |-> k[1], table |-> k[2], family |-> v] : k \in {<<0, 255>>, <<32766, Main>>,
     <<32767, 253>>}, v \in {4, 6}}
L3mdevRules == {[priority |-> 1000, table |-> 0, family |-> v] : v \in {4, 6}}

EmptyNs ==
  [links     |-> [i \in {"lo"} |-> [NewLink("loopback", 65536, "zeros", NoData) EXCEPT
                    !.up = TRUE, !.addrs = {[v |-> 4, net |-> "loopback", host |-> 1]}]],
   routes    |-> {}, rules |-> {}, system |-> DefaultRules, neighbors |-> {},
   sysctls   |-> [k \in {<<"net.ipv4.ip_forward">>} |-> 0], err |-> None]

-----------------------------------------------------------------------------
(* One receive handler per device: a bridge, a bond, the macvlans or the    *)
(* ipvlans on it.                                                           *)
Received(ns, i) ==
  (KindsOn(ns, i) \cap {"macvlan", "ipvlan"})
    \cup ({k \in {"bond", "bridge"} :
            ns.links[i].master # None /\ ns.links[ns.links[i].master].kind = k})

(* Tunnels between the same addresses, VLANs with the same tag.             *)
Twin(ns, kind, data) ==
  \E j \in DOMAIN ns.links :
    ns.links[j].kind = kind /\
    CASE kind = "vlan" -> ns.links[j].data = data
      [] kind \in {"gre", "ipip"} ->
           [ns.links[j].data EXCEPT !.ttl = None] = [data EXCEPT !.ttl = None]
      [] kind \in {"vxlan", "geneve"} -> ns.links[j].data.vni = data.vni
      [] OTHER -> FALSE

AddError(ns, name, kind, data) ==
  IF Known(ns, name) \/ Twin(ns, kind, data) THEN "EEXIST"
  ELSE IF data.link # None /\ ~Known(ns, data.link) THEN "ENODEV"
  ELSE IF kind \in {"macvlan", "ipvlan"} /\ Received(ns, data.link) \ {kind} # {} THEN "EBUSY"
  ELSE None

(* The mode of an ipvlan is its parent's: the last one decides.             *)
SharedMode(links, kind, data) ==
  [j \in DOMAIN links |->
     IF kind = "ipvlan" /\ links[j].kind = "ipvlan" /\ Lower(links[j]) = data.link
     THEN [links[j] EXCEPT !.data.mode = data.mode] ELSE links[j]]

AddLink(ns, name, kind, data) ==
  LET inherits == kind \in {"vlan", "macvlan", "ipvlan"} /\ data.link # None
      shares   == kind \in {"vlan", "ipvlan"} /\ data.link # None IN
  Request(ns, AddError(ns, name, kind, data),
    [ns EXCEPT
       !.links = With(SharedMode(@, kind, data), name,
                   NewLink(kind, IF inherits THEN @[data.link].mtu ELSE 1500,
                           IF shares THEN @[data.link].mac ELSE name, data)),
       !.system = IF kind = "vrf" THEN @ \cup L3mdevRules ELSE @])

VlansOn(ns, i) == {j \in On(ns, i) : ns.links[j].kind = "vlan"}

(* A VLAN cannot be up on a parent that is down; a parent that comes up     *)
(* takes its VLANs along.                                                   *)
SetUp(ns, i) ==
  LET l == ns.links[i]
      rising == IF l.up THEN {} ELSE {i} \cup VlansOn(ns, i) IN
  Request(ns, IF l.kind = "vlan" /\ ~ns.links[Lower(l)].up THEN "ENETDOWN" ELSE None,
    [ns EXCEPT !.links = [j \in DOMAIN @ |-> [ns.links[j] EXCEPT !.up = @ \/ j \in rising]]])

(* Going down takes the VLANs with it, and IPv6 addresses and routes.       *)
SetDown(ns, i) ==
  LET down == {i} \cup VlansOn(ns, i) IN
  Request(ns, None,
    [ns EXCEPT
       !.links = [j \in DOMAIN @ |->
          IF j \notin down THEN @[j]
          ELSE [ns.links[j] EXCEPT !.up = FALSE, !.addrs = {a \in @ : a.v = 4}]],
       !.routes = {r \in @ : RouteDevices(r) \cap down = {}}])

SetMtu(ns, i, mtu) ==
  LET l == ns.links[i] IN
  Request(ns,
    IF l.kind \in {"macvlan", "vxlan"}
       /\ mtu + (IF l.kind = "vxlan" THEN Overhead([type |-> "vxlan"] @@ l.data) ELSE 0)
            > ns.links[Lower(l)].mtu
    THEN "EINVAL" ELSE None,
    [ns EXCEPT !.links[i].mtu = mtu])

SetMac(ns, i, mac) ==
  LET same == {i} \cup {j \in DOMAIN ns.links : ns.links[i].kind = "bond" /\ ns.links[j].master = i} IN
  Request(ns, None,
    [ns EXCEPT !.links = [j \in DOMAIN @ |-> IF j \in same THEN [@[j] EXCEPT !.mac = mac] ELSE @[j]]])

(* A bond takes the address of its first member and gives it to the others; *)
(* a bridge is as narrow as its narrowest port.                             *)
SetMaster(ns, i, m) ==
  LET l       == ns.links[i]
      top     == ns.links[m]
      members == {j \in DOMAIN ns.links : ns.links[j].master = m}
      bond    == top.kind = "bond"
      bridge  == top.kind = "bridge"
      leading == [top EXCEPT
        !.mtu = IF bridge THEN Min({l.mtu} \cup {ns.links[j].mtu : j \in members}) ELSE top.mtu,
        !.mac = IF bond /\ members = {} THEN l.mac ELSE top.mac]
      member  == [l EXCEPT
        !.master = m,
        !.mac    = IF bond /\ members # {} THEN top.mac ELSE l.mac,
        !.up     = IF bond THEN TRUE ELSE l.up,
        !.port   = IF bridge THEN BasePort ELSE l.port,
        !.vlans  = IF bridge THEN {Pvid1} ELSE l.vlans] IN
  Request(ns,
    IF bond /\ l.up THEN "EPERM"
    ELSE IF (bond \/ bridge) /\ Received(ns, i) # {} THEN "EBUSY" ELSE None,
    [ns EXCEPT !.links[m] = leading, !.links[i] = member])

SetData(ns, i, field, value) == Request(ns, None, [ns EXCEPT !.links[i].data[field] = value])

SetPort(ns, i, settings) ==
  Request(ns, None,
    [ns EXCEPT !.links[i].port = [s \in DOMAIN @ |-> Default(settings[s], @[s])]])

(* A port has one PVID: a new one takes the place of the old.               *)
AddVlan(ns, i, vlan) ==
  Request(ns, None,
    [ns EXCEPT !.links[i].vlans =
       {IF vlan.pvid THEN [w EXCEPT !.pvid = FALSE] ELSE w : w \in {x \in @ : x.vid # vlan.vid}}
         \cup {vlan}])
DeleteVlan(ns, i, vid) ==
  Request(ns, IF \E w \in ns.links[i].vlans : w.vid = vid THEN None ELSE "ENOENT",
    [ns EXCEPT !.links[i].vlans = {w \in @ : w.vid # vid}])

(* There is no IPv6 on a device too narrow for it.                          *)
AddAddress(ns, i, a) ==
  Request(ns,
    IF a.v = 6 /\ ns.links[i].mtu < MinMtuV6 THEN "EINVAL"
    ELSE IF a \in ns.links[i].addrs THEN "EEXIST" ELSE None,
    [ns EXCEPT !.links[i].addrs = @ \cup {a}])

OnLink(ns, i, via) == \E a \in ns.links[i].addrs : Net(a) = Net(via)
(* The address of an interface that is up is a route of its table.          *)
TableOf(ns, i) ==
  LET m == ns.links[i].master IN
  IF m # None /\ ns.links[m].kind = "vrf" THEN ns.links[m].data.table ELSE Main
Connected(ns, r) ==
  /\ r.dst.v = 4
  /\ \E i \in DOMAIN ns.links :
       ns.links[i].up /\ TableOf(ns, i) = r.table /\ \E a \in ns.links[i].addrs : Net(a) = r.dst
AddRoute(ns, r) ==
  LET hops == Range(Hops(r)) IN
  Request(ns,
    IF \E h \in hops : ~Known(ns, h.dev) THEN "ENODEV"
    ELSE IF \E h \in hops : ~ns.links[h.dev].up THEN "ENETDOWN"
    ELSE IF \E h \in hops : h.via # None /\ ~OnLink(ns, h.dev, h.via) THEN "ENETUNREACH"
    ELSE IF (\E s \in ns.routes : s.dst = r.dst /\ s.table = r.table) \/ Connected(ns, r)
         THEN "EEXIST" ELSE None,
    [ns EXCEPT !.routes = @ \cup {r}])

AddNeighbor(ns, b) ==
  Request(ns,
    IF ~Known(ns, b.dev) THEN "ENODEV"
    ELSE IF \E c \in ns.neighbors : <<c.dst, c.dev, c.proxy>> = <<b.dst, b.dev, b.proxy>>
         THEN "EEXIST" ELSE None,
    [ns EXCEPT !.neighbors = @ \cup {b}])

(* A token bucket as the kernel keeps it: the time of a burst in ticks of   *)
(* 64 ns, rounded down, and the length of its queue in bytes.  A rate is in *)
(* Mbit/s: 1 Mbit/s is 125 bytes in a millisecond, or 125 ticks for a byte. *)
Ticks(qdisc) ==
  [kind |-> "tbf", rate |-> qdisc.rate, buffer |-> (qdisc.burst * 125) \div qdisc.rate,
   limit |-> qdisc.rate * 125 * qdisc.latency + qdisc.burst]

(* The queue does not fit the 32 bits of its attribute: 2^32 / 125.         *)
TooLong(qdisc) ==
  qdisc # None /\ qdisc.kind = "tbf" /\ qdisc.rate * qdisc.latency > 34359738

(* A rule equal to one that is there is refused, the namespace's own three  *)
(* included.                                                                *)
Bare(r) ==
  \A f \in {"source", "destination", "tos", "fwmark", "iif", "oif", "ip_protocol", "port",
           "suppress"} : r[f] = None
IsSystem(ns, r) == r.action = "lookup" /\ Bare(r) /\
  [priority |-> r.priority, table |-> Default(r.table, 0), family |-> r.family] \in ns.system
AddRule(ns, r) ==
  Request(ns, IF r \in ns.rules \/ IsSystem(ns, r) THEN "EEXIST" ELSE None,
    [ns EXCEPT !.rules = @ \cup {r}])

(* Sysctls are files: the dots of a key separate its directories, so that   *)
(* a key with a device whose own name has a dot is no path.                 *)
Dotted == {"eth0.10"}
WriteSysctl(ns, key, value) ==
  Request(ns, IF Len(key) = 2 /\ key[2] \in Dotted THEN "ENOENT" ELSE None,
    [ns EXCEPT !.sysctls = With(@, key, value)])
=============================================================================
