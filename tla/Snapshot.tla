------------------------------ MODULE Snapshot ------------------------------
(***************************************************************************)
(* The snapshot of a deployment: the manifest and what is owned under it,  *)
(* as lifecycle.py writes it, and the check of src/nslab/snapshot.py that  *)
(* every later command makes when it reads it.  The two draw up their own  *)
(* tables of what identifies a device.  ifindexes, timestamps and the      *)
(* snapshots of earlier versions without identities are left out.          *)
(***************************************************************************)
EXTENDS Comparison

NoSnapshot == [status |-> "missing"]

(* The manifest is stored with the defaults of the kernel filled in, so     *)
(* that its fingerprint does not change when they are declared.             *)
NormalizedDevice(d) ==
  IF d.type = "bond" /\ d.mode = "802.3ad"
  THEN [d EXCEPT !.lacp_rate        = IF @ = None THEN "slow" ELSE @,
                 !.xmit_hash_policy = IF @ = None THEN "layer2" ELSE @,
                 !.min_links        = IF @ = None THEN 0 ELSE @]
  ELSE d
Normalized(m) ==
  [m EXCEPT !.nodes = [n \in DOMAIN m.nodes |->
     [m.nodes[n] EXCEPT !.devices = [d \in DOMAIN @ |-> NormalizedDevice(@[d])]]]]
Fingerprint(m) == Normalized(m)                     \* manifest_fingerprint

-----------------------------------------------------------------------------
(* What is owned: the bridge and the devices of each node, and link ends.   *)

LinkEnds(plan) == UNION {EndsOf(link) : link \in Range(plan.links)}
Owned(plan) ==
  LinkEnds(plan) \cup
  UNION {{<<n, d>> : d \in DOMAIN plan.nodes[n].devices
                           \cup (IF plan.nodes[n].kind = "bridge"
                                 THEN {plan.nodes[n].bridge.name} ELSE {})} :
         n \in DOMAIN plan.nodes}

(* A temporary name is made from the link and the end.                      *)
Identify(plan, e, fields) ==
  LET devices == plan.nodes[e[1]].devices IN
  IF e \in LinkEnds(plan)
  THEN [kind |-> "veth", temporary_name |-> <<CHOOSE k \in LinksAt(plan.links, e[1], e[2]) : TRUE, e>>]
  ELSE IF e[2] \in DOMAIN devices
  THEN LET dev == devices[e[2]] IN [kind |-> dev.type] @@ [f \in fields[dev.type] |-> dev[f]]
  ELSE [kind |-> "bridge"]

(* Mutant: two tunnels are told apart by their keys no more.                *)
WithoutKey ==
  [dummy |-> {}, vrf |-> {"table"}, bond |-> {"mode", "interfaces"}, vlan |-> {"link", "id"},
   macvlan |-> {"link", "mode"}, ipvlan |-> {"link", "mode"},
   geneve |-> {"vni", "link", "remote", "port"},
   vxlan |-> {"vni", "link", "local", "remote", "port"},
   gre |-> {"link", "local", "remote", "ttl"}, ipip |-> {"link", "local", "remote", "ttl"}]

(* By the writer.                                                           *)
WrittenFields ==                                    \* LifecycleService._interface_ownership
  [dummy |-> {}, vrf |-> {"table"}, bond |-> {"mode", "interfaces"}, vlan |-> {"link", "id"},
   macvlan |-> {"link", "mode"}, ipvlan |-> {"link", "mode"},
   geneve |-> {"vni", "link", "remote", "port"},
   vxlan |-> {"vni", "link", "local", "remote", "port"},
   gre |-> {"link", "local", "remote", "key", "ttl"}, ipip |-> {"link", "local", "remote", "ttl"}]
Ownership(plan, ids) ==
  [e \in Owned(plan) |->
     [identity |-> Identify(plan, e, WrittenFields),
      link_id  |-> IF e \in LinkEnds(plan) THEN ids[e] ELSE None]]

(* The snapshot of a deployment: before the build no identity is known.     *)
SnapshotFor(m, status, ids) ==
  [status |-> status, manifest |-> Normalized(m), fingerprint |-> Fingerprint(m),
   owned |-> Ownership(Plan(m), ids)]
UnknownIds(plan)  == [e \in LinkEnds(plan) |-> None]
IdsOf(plan, inv)  == [e \in LinkEnds(plan) |-> LinkId(inv, e)]

(* By the reader.                                                           *)
ExpectedFields ==                                   \* _expected_ownership
  [bond |-> {"mode", "interfaces"}, dummy |-> {}, geneve |-> {"vni", "link", "remote", "port"},
   gre |-> {"link", "local", "remote", "key", "ttl"}, ipip |-> {"link", "local", "remote", "ttl"},
   ipvlan |-> {"link", "mode"}, macvlan |-> {"link", "mode"}, vlan |-> {"link", "id"},
   vrf |-> {"table"}, vxlan |-> {"vni", "link", "local", "remote", "port"}]

ValidIds(snapshot, plan) ==
  LET id(e) == snapshot.owned[e].link_id
      ids   == {id(e) : e \in LinkEnds(plan)} IN
  IF ids = {None} THEN snapshot.status # "deployed"
  ELSE /\ None \notin ids
       /\ \A k \in DOMAIN plan.links :
            /\ id(plan.links[k].left) = id(plan.links[k].right)
            /\ \A e \in LinkEnds(plan) : id(e) = id(plan.links[k].left) => e \in EndsOf(plan.links[k])
ValidInterfaces(snapshot, plan) ==                  \* _validate_interfaces
  /\ DOMAIN snapshot.owned = Owned(plan)
  /\ \A e \in Owned(plan) : snapshot.owned[e].identity = Identify(plan, e, ExpectedFields)
  /\ ValidIds(snapshot, plan)

(* Otherwise the command is refused with STATE_INVALID.                     *)
ValidSnapshot(snapshot) ==                          \* validate_snapshot
  /\ Accepted(snapshot.manifest) /\ Compiles(snapshot.manifest)
  /\ Fingerprint(snapshot.manifest) = snapshot.fingerprint
  /\ ValidInterfaces(snapshot, Plan(snapshot.manifest))

-----------------------------------------------------------------------------
(* The identities of the links are the ones the snapshot recorded.          *)
(* Mutant: one identity is compared with all of them.                       *)
FirstMatch(plan, inv, owned) ==
  \A e \in LinkEnds(plan) : owned[plan.links[1].left].link_id = LinkId(inv, e)
RecordedMatch(plan, inv, owned) ==                  \* recorded_link_ids_match_inventory
  /\ LinksMatch(plan, inv)
  /\ \A e \in LinkEnds(plan) : owned[e].link_id = LinkId(inv, e)
=============================================================================
