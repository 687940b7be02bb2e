------------------------- MODULE OwnershipJournal --------------------------
(***************************************************************************)
(* What the lifecycle service promises, without saying how: one durable    *)
(* entry per deployment is written before the first resource is created    *)
(* and erased after the last one is gone, and while a deployment changes   *)
(* the kernel nothing but its own transient entry can survive a power      *)
(* loss.  Lifecycle.tla is checked to implement this module.               *)
(***************************************************************************)
CONSTANTS
  Topos,                 \* topologies
  AssetsOf,              \* topology -> what deploying it creates
  NoEntry

Entries == [topo : Topos, status : {"deploying", "deployed", "destroying"}]

ASSUME NoEntryAssumption == NoEntry \notin Entries

VARIABLES
  entry,                 \* the entry on disk
  memory,                \* the entries a power loss may leave
  assets                 \* everything live that nslab created

vars == <<entry, memory, assets>>

(* The entry on disk is among those a power loss may leave there.           *)
TypeOK ==
  /\ entry \in Entries \cup {NoEntry}
  /\ memory \subseteq Entries \cup {NoEntry} /\ entry \in memory

Is(status) == entry # NoEntry /\ entry.status = status

(* An entry becomes visible, durably or not yet.                            *)
Write(new) == entry' = new /\ memory' \in {{new}, memory \cup {new}}
Move(status) == Write([entry EXCEPT !.status = status])

Begin(t) ==
  /\ entry = NoEntry
  /\ Write([topo |-> t, status |-> "deploying"])
  /\ UNCHANGED assets

(* Building, and taking back what was built when it failed.                 *)
Build ==
  /\ Is("deploying") /\ memory = {entry}
  /\ assets' \in SUBSET AssetsOf[entry.topo]
  /\ UNCHANGED <<entry, memory>>

Settle ==
  /\ Is("deploying") /\ Move("deployed")
  /\ UNCHANGED assets

BeginRemoval ==
  /\ Is("deployed") /\ Move("destroying")
  /\ UNCHANGED assets

Remove ==
  /\ Is("destroying") /\ memory = {entry}
  /\ assets' \in SUBSET assets
  /\ UNCHANGED <<entry, memory>>

(* The entry goes before the resources do.                                  *)
CloseFirst ==
  /\ Is("deploying") \/ Is("destroying")
  /\ Write(NoEntry)
  /\ UNCHANGED assets

Close ==
  /\ Is("deploying") \/ Is("destroying")
  /\ assets = {}
  /\ Write(NoEntry)
  /\ UNCHANGED assets

(* Others may delete resources, and a power loss takes them; neither adds.  *)
Decay ==
  /\ assets' \in SUBSET assets
  /\ UNCHANGED <<entry, memory>>

PowerLoss ==
  /\ entry' \in memory /\ memory' = {entry'}
  /\ assets' \in SUBSET assets

Init == entry = NoEntry /\ memory = {NoEntry} /\ assets = {}

Next == \/ \E t \in Topos : Begin(t)
        \/ Build \/ Settle \/ BeginRemoval \/ Remove \/ Close
        \/ Decay \/ PowerLoss

Spec == Init /\ [][Next]_vars

(* Whatever the disk can come back with accounts for everything live.       *)
Accounts(e) == assets # {} => e # NoEntry /\ assets \subseteq AssetsOf[e.topo]
NoOrphans == \A e \in memory : Accounts(e)

=============================================================================
