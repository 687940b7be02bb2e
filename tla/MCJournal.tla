----------------------------- MODULE MCJournal -----------------------------
(* Two topologies whose resources overlap in one.                           *)
EXTENDS OwnershipJournal, TLC

CONSTANTS big, small, sw, host, cable

MCTopos    == {big, small}
MCAssetsOf == big :> {sw, host, cable} @@ small :> {host}
=============================================================================
