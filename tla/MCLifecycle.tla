---------------------------- MODULE MCLifecycle ----------------------------
(***************************************************************************)
(* Two topologies under one deployment name.  The first has a bridge node, *)
(* a plain node, the link between them and dynamic routing; the second has *)
(* only the plain node, whose namespace name the two share.                *)
(***************************************************************************)
EXTENDS Lifecycle, TLC

CONSTANTS big, small, sw, host, cable

MCTopos      == {big, small}
MCNamespaces == {sw, host}
MCLinks      == {cable}
MCNodesOf    == big :> {sw, host} @@ small :> {host}
MCBridgesOf  == big :> {sw} @@ small :> {}
MCLinksOf    == big :> {cable} @@ small :> {}
MCEnds       == cable :> {sw, host}
MCRouted     == {big}

NoMishap   == [k \in Mishaps |-> 0]
NoRemoval  == [NoMishap EXCEPT !["meddling"] = 2, !["outage"] = 1]
OneRemoval == [NoMishap EXCEPT !["removal"] = 1]

Symmetry == Permutations(Procs)
=============================================================================
