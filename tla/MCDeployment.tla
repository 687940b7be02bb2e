---------------------------- MODULE MCDeployment ----------------------------
(***************************************************************************)
(* Manifests for TLC: a node "a" under test and a plain neighbour "b", with *)
(* two links between them.  Each family varies one chapter of the manifest *)
(* and includes manifests the validators refuse.                           *)
(***************************************************************************)
EXTENDS Deployment

A(net, host)  == [v |-> 4, net |-> net, host |-> host]
A6(net, host) == [v |-> 6, net |-> net, host |-> host]
End(addrs)    == [addrs |-> addrs, mac |-> None]

Wire(i, mtu) == [left |-> <<"a", i>>, right |-> <<"b", i>>, mtu |-> mtu, netem |-> None,
                 qdisc |-> None]
Wires == <<Wire("eth0", 1500), Wire("eth1", 1500)>>

Linux == [kind |-> "linux", interfaces |-> << >>, devices |-> << >>, routes |-> <<>>,
          neighbors |-> {}, rules |-> {}, sysctls |-> << >>, routing |-> None, bridge |-> None]
Lab(node, links) == [nodes |-> ("a" :> node @@ "b" :> Linux), links |-> links]

Nothing == [nodes |-> << >>, links |-> <<>>]

Eth0 == "eth0" :> End({A("n0", 1)})
Eth1 == "eth1" :> End({A("n1", 1)})
Both == Eth0 @@ Eth1

-----------------------------------------------------------------------------
(* Devices, two at a time, over endpoints that are declared or not.         *)

Device(type, fields) == [type |-> type, addrs |-> {}, mac |-> None] @@ fields
Vlan(link, id)   == Device("vlan", [link |-> link, id |-> id])
Tunnel(type, key) == Device(type, [link |-> "eth0", local |-> A("n0", 1), remote |-> A("n0", 2),
                                   mtu |-> None, key |-> key, ttl |-> 64])
Bond(mode, mac) ==
  [Device("bond", [interfaces |-> <<"eth0", "eth1">>, mode |-> mode, miimon |-> 100,
                   primary |-> None, lacp_rate |-> None, xmit_hash_policy |-> None,
                   min_links |-> None]) EXCEPT !.mac = mac]
Vrf(table, members) == [type |-> "vrf", table |-> table, interfaces |-> members]
Stack(type, mode) == Device(type, [link |-> "eth0", mode |-> mode, mtu |-> None])

Palette ==
  "eth0.10" :> [Vlan("eth0", 10) EXCEPT !.addrs = {A("n10", 1)}]
  @@ "vlan20" :> Vlan("eth1", 20)
  @@ "vx0" :> Device("vxlan", [link |-> "eth0", vni |-> 7, local |-> A("n0", 1),
                remote |-> A("n0", 2), port |-> 4789, learning |-> TRUE, mtu |-> None])
  @@ "gv0" :> Device("geneve", [link |-> "eth0", vni |-> 7, remote |-> A("n0", 2),
                port |-> 6081, mtu |-> None])
  @@ "gv1" :> Device("geneve", [link |-> "eth0", vni |-> 7, remote |-> A("n0", 3),
                port |-> 6081, mtu |-> None])
  @@ "tun0" :> Tunnel("gre", None) @@ "tun1" :> Tunnel("gre", None) @@ "tun2" :> Tunnel("gre", 5)
  @@ "ip0" :> [Tunnel("ipip", None) EXCEPT !.addrs = {A("n5", 1)}]
  @@ "mac0" :> Stack("macvlan", "bridge")
  @@ "ipv0" :> Stack("ipvlan", "l2") @@ "ipv1" :> Stack("ipvlan", "l3")
  @@ "dum0" :> [Device("dummy", [mtu |-> None]) EXCEPT !.addrs = {A("n9", 1)}]
  @@ "bond0" :> Bond("active-backup", None)
  @@ "red" :> Vrf(10, <<"eth0">>)
  @@ "blue" :> Vrf(11, <<"eth0.10">>)

Pick(devices) == [d \in devices |-> Palette[d]]
DevicePairs == {Pick(s) : s \in {t \in SUBSET DOMAIN Palette : Cardinality(t) <= 2}}
DeviceTriples == {Pick(s) : s \in {t \in SUBSET DOMAIN Palette : Cardinality(t) = 3}}
Stacks ==
  {Lab([Linux EXCEPT !.devices = ds, !.interfaces = Eth0], Wires) : ds \in DeviceTriples}
  \cup {Lab([Linux EXCEPT !.devices = ds, !.interfaces = is], Wires) :
     ds \in DevicePairs, is \in {<< >>, Eth0, Both}}
(* Declared MAC addresses, on members and on their bond.                    *)
Macs ==
  {Lab([Linux EXCEPT
          !.devices = "bond0" :> Bond("active-backup", top),
          !.interfaces = "eth0" :> [addrs |-> {}, mac |-> m0] @@ "eth1" :> [addrs |-> {}, mac |-> m1]],
       Wires) :
     top \in {None, "m2"}, m0 \in {None, "m0"}, m1 \in {None, "m0", "m1"}}
  \cup {Lab([Linux EXCEPT
          !.devices = Pick({"eth0.10", "mac0"}),
          !.interfaces = "eth0" :> [addrs |-> {A("n0", 1)}, mac |-> "m0"]], Wires)}

(* Bonds in their modes, and one that is not wide enough.                   *)
Bonds ==
  {Lab([Linux EXCEPT !.devices =
          "bond0" :> [Bond(mode, None) EXCEPT !.min_links = links, !.primary = primary,
                                                 !.interfaces = members]],
       <<Wire("eth0", 1500), Wire("eth1", mtu)>>) :
     mode \in {"active-backup", "802.3ad"}, links \in {None, 2}, primary \in {None, "eth1"},
     members \in {<<"eth0", "eth1">>, <<"eth1", "eth0">>}, mtu \in {1500, 1400}}

-----------------------------------------------------------------------------
(* Routes, with and without a VRF.                                          *)

Route(dst, via, dev, table) ==
  [dst |-> [v |-> 4, net |-> dst], via |-> via, dev |-> dev, nexthops |-> <<>>, table |-> table]
Multipath(dst, table) ==
  [dst |-> [v |-> 4, net |-> dst], via |-> None, dev |-> None, table |-> table,
   nexthops |-> <<[via |-> A("n0", 2), dev |-> "eth0"], [via |-> A("n1", 2), dev |-> "eth1"]>>]

RouteSets ==
  {<<Route("x", A("n0", 2), "eth0", None)>>,
   <<Route("x", A("n0", 2), "eth0", None), Route("x", A("n1", 2), "eth1", None)>>,
   <<Route("x", A("n0", 2), "eth0", 100), Route("x", A("n1", 2), "eth1", None)>>,
   <<Route("x", A("n1", 2), "eth0", None)>>,
   <<Route("x", None, "eth1", 10)>>, <<Route("n0", None, "eth0", None)>>,
   <<[Route("x", A6("s0", 2), "eth0", None) EXCEPT !.dst = [v |-> 6, net |-> "y"]]>>,
   <<Multipath("x", None)>>, <<Multipath("x", 100)>>, <<Multipath("x", 10)>>}
VrfSets ==
  {<< >>, "red" :> Vrf(10, <<"eth0">>), "red" :> Vrf(10, <<"eth0", "eth1">>),
   "red" :> Vrf(10, <<"eth1">>) @@ "blue" :> Vrf(11, <<"eth0">>)}
Routes ==
  {Lab([Linux EXCEPT !.interfaces = Both, !.routes = rs, !.devices = vs], Wires) :
     rs \in RouteSets, vs \in VrfSets}

(* Rules.                                                                   *)
Rule(priority, table) ==
  [priority |-> priority, action |-> "lookup", table |-> table, goto |-> None, family |-> None,
   source |-> None, destination |-> None, tos |-> None, fwmark |-> None, fwmask |-> None,
   iif |-> None, oif |-> None, ip_protocol |-> None, port |-> None, suppress |-> None,
   l3mdev |-> FALSE]
RuleSets ==
  {{Rule(100, 10)}, {Rule(100, 10), [Rule(100, 11) EXCEPT !.iif = "eth0"]},
   {Rule(32766, Main)}, {[Rule(32766, Main) EXCEPT !.iif = "eth0"]}, {Rule(1000, 10)},
   {[Rule(100, 10) EXCEPT !.fwmark = 0]}, {[Rule(100, 10) EXCEPT !.fwmark = 1]},
   {[Rule(100, 10) EXCEPT !.fwmark = 1, !.fwmask = 0]}, {[Rule(100, 10) EXCEPT !.fwmask = 1]},
   {[Rule(100, 10) EXCEPT !.tos = 0, !.source = [v |-> 4, net |-> "everything"]]},
   {[Rule(100, 10) EXCEPT !.source = [v |-> 6, net |-> "x"]]},
   {[Rule(100, None) EXCEPT !.l3mdev = TRUE, !.family = 4]},
   {[Rule(100, None) EXCEPT !.action = "goto", !.goto = 200], Rule(200, 10)},
   {[Rule(100, None) EXCEPT !.action = "goto", !.goto = 100]},
   {[Rule(100, 10) EXCEPT !.oif = "red"]}}
Rules ==
  {Lab([Linux EXCEPT !.interfaces = Both, !.rules = rs, !.devices = vs], Wires) :
     rs \in RuleSets, vs \in {<< >>, "red" :> Vrf(10, <<"eth0">>)}}

(* Neighbors and sysctls.                                                   *)
Neighbor(dst, dev, state) ==
  [dst |-> dst, dev |-> dev, lladdr |-> "m7", state |-> state, proxy |-> FALSE]
Proxy(dst, dev) == [dst |-> dst, dev |-> dev, lladdr |-> None, state |-> None, proxy |-> TRUE]
Forwarding == <<"net.ipv4.ip_forward">> :> 1
Neighbors ==
  {Lab([Linux EXCEPT !.interfaces = Both, !.devices = Pick({"eth0.10"}), !.neighbors = bs,
                     !.sysctls = ks], Wires) :
     ks \in {<< >>, Forwarding},
     bs \in {{Neighbor(A("n0", 2), "eth0", s)} : s \in {None, "reachable", "stale", "noarp"}}
            \cup {{Proxy(A("n0", 3), "eth0")}, {Proxy(A("n10", 3), "eth0.10")},
                  {Proxy(A6("s0", 3), "eth1"), Neighbor(A("n0", 3), "eth0", None)},
                  {Proxy(A("n0", 3), "eth0"), Neighbor(A("n0", 3), "eth0", None)}}}

-----------------------------------------------------------------------------
(* A bridge with its ports, and overlays that are ports as well.            *)

Port(fields) == fields @@ [vlans |-> <<>>] @@ [s \in PortSettings |-> None]
Tag(vid, pvid) == [vid |-> vid, pvid |-> pvid, untagged |-> pvid]
PortSets ==
  {<< >>, "eth0" :> Port([hairpin |-> TRUE]), "eth0" :> Port([path_cost |-> 5]),
   "eth0" :> Port([vlans |-> <<Tag(1, TRUE)>>]),
   "eth0" :> Port([vlans |-> <<Tag(10, TRUE), Tag(20, FALSE)>>]),
   "eth1" :> Port([vlans |-> <<Tag(20, FALSE), Tag(10, TRUE)>>]),
   "eth1" :> Port([vlans |-> <<Tag(10, TRUE), Tag(20, TRUE)>>]),
   "vx0" :> Port([learning |-> FALSE])}
Switch(filtering, stp, priority, ports) ==
  [name |-> "br0", stp |-> stp, vlan_filtering |-> filtering, priority |-> priority,
   ports |-> ports]
Bridges ==
  {Lab([Linux EXCEPT !.kind = "bridge", !.bridge = Switch(filtering, stp, None, ports),
                     !.interfaces = is, !.devices = ds], Wires) :
     filtering \in BOOLEAN, stp \in BOOLEAN, ports \in PortSets,
     is \in {<< >>, Eth0, "br0" :> End({A("n3", 1)})},
     ds \in {<< >>, Pick({"vx0"}), Pick({"gv0"})}}

(* Shaped links.                                                            *)
Tbf(rate, burst) == [kind |-> "tbf", rate |-> rate, burst |-> burst, latency |-> 400]
Qdiscs ==
  {Tbf(10, 32768), Tbf(1000, 1500), Tbf(3000, 32768), [Tbf(3000, 32768) EXCEPT !.latency = 60000],
   Tbf(1, 1500), [kind |-> "red", limit |-> 1]}
Netem(delay, jitter, loss) ==
  [kind |-> "netem", delay |-> delay, jitter |-> jitter, loss |-> loss, rate |-> None]
Shaped ==
  {Lab([Linux EXCEPT !.interfaces = Eth0], <<[Wire("eth0", 1500) EXCEPT !.netem = n, !.qdisc = q],
                                             Wire("eth1", 1500)>>) :
     n \in {None, Netem(10, 1, 0), Netem(0, 1, 0), Netem(0, 0, 5)}, q \in {None} \cup Qdiscs}

-----------------------------------------------------------------------------
(* Routers.                                                                 *)
Router(ospf, bgp, pim) == [ospf |-> ospf, bgp |-> bgp, pim |-> pim]
Ospf(id) == [router_id |-> id, passive_interfaces |-> {}]
Pim(interfaces) == [rp_address |-> A("n0", 1), interfaces |-> interfaces, igmp_interfaces |-> {}]
Routers ==
  {Lab([Linux EXCEPT !.interfaces = Eth0, !.sysctls = ks, !.routing = g], Wires) :
     ks \in {<< >>, Forwarding},
     g \in {Router(Ospf(1), None, None), Router(None, None, Pim({"eth0"})),
            Router(None, None, Pim({"eth1"})),
            Router(None, [router_id |-> 1, neighbors |-> {A("n0", 2)}], None),
            Router(None, [router_id |-> 1, neighbors |-> {A("n1", 2)}], None)}}

Twins(one, two) ==
  LET router(i, g) == [Linux EXCEPT !.interfaces = i, !.sysctls = Forwarding, !.routing = g] IN
  [nodes |-> "a" :> router(Eth0, one) @@ "b" :> router("eth0" :> End({A("n0", 2)}), two),
   links |-> Wires]
RouterPairs ==
  {Twins(one, two) : one, two \in
     {Router(Ospf(1), None, None), Router(Ospf(2), None, Pim({"eth0"})),
      Router(None, [router_id |-> 1, neighbors |-> {A("n0", 1)}], None),
      Router(None, None, [Pim({"eth0"}) EXCEPT !.rp_address = A("n0", 2)])}}

(* IPv6 and narrow links.                                                   *)
Narrow ==
  {Lab([Linux EXCEPT !.interfaces = "eth0" :> End({A("n0", 1)} \cup e),
                     !.devices = d :> [Palette[d] EXCEPT !.addrs = {A6("s1", 1)}]],
       <<Wire("eth0", mtu), Wire("eth1", 1500)>>) :
     d \in {"eth0.10", "vx0", "tun0", "mac0", "dum0"}, mtu \in {576, 1200, 1280, 1500},
     e \in {{}, {A6("s0", 1)}}}
  \cup {Lab([Linux EXCEPT !.kind = "bridge", !.bridge = Switch(FALSE, FALSE, None, << >>),
                          !.interfaces = "br0" :> End({a}), !.devices = ds],
             <<Wire("eth0", mtu), Wire("eth1", 1500)>>) :
          a \in {A("n3", 1), A6("s3", 1)}, ds \in {<< >>, Pick({"gv0"})}, mtu \in {1200, 1300, 1500}}

MCManifests ==
  {Nothing} \cup Stacks \cup Macs \cup Bonds \cup Routes \cup Rules \cup Neighbors \cup Bridges
    \cup Shaped \cup Routers \cup RouterPairs \cup Narrow
=============================================================================
