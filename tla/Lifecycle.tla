----------------------------- MODULE Lifecycle -----------------------------
(***************************************************************************)
(* The transactional lifecycle of one deployment (lifecycle.py): several   *)
(* nslab invocations run deploy, destroy and redeploy against one journal  *)
(* file, one deployment lock and one kernel.  Every call of the service to *)
(* the state store, the network backend or the routing runtime is a step   *)
(* of its own and may fail; an invocation may be killed between any two    *)
(* steps, the machine may lose power, other tools may change the kernel's  *)
(* state, and the operator may remove the journal file by hand.            *)
(*                                                                         *)
(* Abstractions.  A topology (one manifest fingerprint under the           *)
(* deployment's name) is a model value; a loop over its nodes or links     *)
(* visits them in any order, the code's order being one of them.  A        *)
(* snapshot is its topology and its status: the recorded manifest,         *)
(* namespaces, interfaces and timestamp are functions of those two.  A     *)
(* SIGKILL and an interrupt raised outside every try block leave the same  *)
(* state behind and are one action, Crash.                                 *)
(***************************************************************************)
EXTENDS SnapshotStore, Naturals

CONSTANTS
  Procs,                 \* nslab invocations
  Topos,                 \* topologies (manifest fingerprints)
  Namespaces, Links,     \* names owned by the deployment, and veth pairs
  NodesOf, BridgesOf,    \* topology -> its namespaces, its bridge nodes
  LinksOf, Ends,         \* topology -> its links, link -> its namespaces
  Routed,                \* topologies with a routed node
  Nobody, Root, NoRuntime,
  MaxMishaps             \* bound on each kind of outside event

Mishaps == {"meddling", "outage", "removal"}

Statuses  == {"deploying", "deployed", "destroying"}
Snapshots == [topo : Topos, status : Statuses]
Runtimes  == [topo : Topos, status : {"up", "part", "torn"}]

ASSUME TopologyAssumption ==
  /\ NodesOf   \in [Topos -> SUBSET Namespaces]
  /\ BridgesOf \in [Topos -> SUBSET Namespaces]
  /\ LinksOf   \in [Topos -> SUBSET Links]
  /\ Ends      \in [Links -> (SUBSET Namespaces) \ {{}}]
  /\ Routed \subseteq Topos /\ Topos # {}
  /\ \A t \in Topos : BridgesOf[t] \subseteq NodesOf[t]
  /\ \A t \in Topos : \A l \in LinksOf[t] : Ends[l] \subseteq NodesOf[t]

ASSUME ValueAssumption ==
  /\ Nobody \notin Procs
  /\ Root \notin Namespaces
  /\ NoSnapshot \notin Snapshots /\ NoRuntime \notin Runtimes
  /\ MaxMishaps \in [Mishaps -> Nat]

VARIABLES
  lock,                  \* holder of the flock on NAME.lock
  phase,                 \* namespace -> how far the kernel has it
  veth,                  \* link -> where its ends are; {} when it does not exist
  frr,                   \* the routing runtime of the deployment
  pc, cmd, plan,         \* invocation -> position, command, selected topology
  topo,                  \* topology the current half works on
  todo, made,            \* rest of the current loop; created_namespaces
  bad,                   \* first_error is set, cleanup_failed
  result                 \* the outcome the invocation reports

VARIABLES                \* history, read by the properties only
  ours,                  \* existing namespaces that nslab created
  born,                  \* namespaces created under the journalled deployment
  author,                \* invocation that wrote the transient entry and still runs
  disturbed,             \* the kernel changed behind nslab since the last verification
  touched, faulted,      \* invocations that changed something; that met a fault
  mishaps                \* outside events so far

hostVars    == <<phase, veth, frr>>
frameVars   == <<cmd, plan, topo, made, bad>>
controlVars == <<pc, todo, result>>
historyVars == <<ours, born, author, disturbed, touched>>
vars == <<storeVars, hostVars, frameVars, controlVars, historyVars, lock, faulted, mishaps>>

-----------------------------------------------------------------------------
(* Snapshots and what the backend's inventory says of a topology.          *)

Phases == {"absent", "bare", "bridged", "ready"}

Entry(t, s)  == [topo |-> t, status |-> s]
SomeTopo     == CHOOSE t \in Topos : TRUE
Transient(d) == d # NoSnapshot /\ d.status # "deployed"

(* _require_stable_snapshot refuses these.  The first form forgets the      *)
(* deploys that were cut short.                                             *)
InterruptedDestroy(d) == d # NoSnapshot /\ d.status = "destroying"
Interrupted(d) == Transient(d)
Stable(d) == d # NoSnapshot /\ ~Interrupted(d)

InventoryIsAbsent(t) ==
  /\ \A n \in NodesOf[t] : phase[n] = "absent"
  /\ \A l \in LinksOf[t] : Root \notin veth[l]

InventoryMatches(t) ==
  /\ \A n \in NodesOf[t] : phase[n] = "ready"
  /\ \A l \in LinksOf[t] : veth[l] = Ends[l]

RoutingReady(t) == t \in Routed => frr = Entry(t, "up")

(* Markers of another fingerprint, or a directory without its marker, make *)
(* the runtime refuse both start and stop.                                  *)
RuntimeRefuses(t) == frr # NoRuntime /\ (frr.topo # t \/ frr.status = "torn")

-----------------------------------------------------------------------------
(* Control flow of an invocation.                                           *)

Successes == {"deployed", "unchanged", "destroyed", "absent"}
Refusals  == {"OWNERSHIP_UNKNOWN", "DEPLOYMENT_CONFLICT", "DEPLOYMENT_INTERRUPTED",
              "DEPLOYMENT_DRIFT", "DEPLOYMENT_LOCKED"}

Idle(p) == pc[p] = "idle"
At(p, label) == pc[p] = label

GotoWith(p, label, items) ==
  /\ pc' = [pc EXCEPT ![p] = label]
  /\ todo' = [todo EXCEPT ![p] = items]
  /\ UNCHANGED result

Goto(p, label) == GotoWith(p, label, todo[p])
Done(p, item)  == GotoWith(p, pc[p], todo[p] \ {item})

Finish(p, code) ==
  /\ pc' = [pc EXCEPT ![p] = "unlock"]
  /\ todo' = [todo EXCEPT ![p] = {}]
  /\ result' = [result EXCEPT ![p] = code]

Fails(p)  == Finish(p, "failed")
Fault(p)  == faulted' = faulted \cup {p}
NoFault   == UNCHANGED faulted
SetBad(p) == bad' = [bad EXCEPT ![p] = TRUE]

(* The exception handlers around the build loop.                            *)
RollBack(p) ==
  /\ GotoWith(p, "rollback_routing", {})
  /\ bad' = [bad EXCEPT ![p] = FALSE]

(* Deleting a namespace takes the veth pairs with an end in it along.       *)
DropNamespace(n) ==
  /\ phase' = [phase EXCEPT ![n] = "absent"]
  /\ veth' = [l \in Links |-> IF n \in veth[l] THEN {} ELSE veth[l]]

(* History of a step of p, computed from what the step does.                *)
History(p) ==
  LET created == {n \in Namespaces : phase[n] = "absent" /\ phase'[n] # "absent"} IN
  /\ ours' = {n \in ours \cup created : phase'[n] # "absent"}
  /\ born' = IF disk' # disk /\ disk' = Entry(topo[p], "deploying") THEN {}
             ELSE born \cup created
  /\ author' = IF disk' # disk THEN (IF Transient(disk') THEN p ELSE Nobody)
               ELSE IF author = p /\ pc'[p] \in {"done", "idle"} THEN Nobody
               ELSE author
  /\ disturbed' = (disturbed /\ pc'[p] # "journal_deployed")
  /\ touched' = IF pc'[p] = "idle" THEN touched \ {p}
                ELSE IF disk' # disk \/ hostVars' # hostVars THEN touched \cup {p}
                ELSE touched
  /\ UNCHANGED mishaps

-----------------------------------------------------------------------------
(* Invocation, lock and release.                                            *)

(* The topology is chosen before the lock is taken: read from a manifest,   *)
(* or, with --name alone, from the snapshot as it is at this moment.        *)
Start(p) ==
  /\ Idle(p)
  /\ \E c \in {"deploy", "destroy", "redeploy"}, t \in Topos :
       /\ cmd' = [cmd EXCEPT ![p] = c]
       /\ plan' = [plan EXCEPT ![p] = t]
       /\ topo' = [topo EXCEPT ![p] = t]
  /\ Goto(p, "queued")
  /\ UNCHANGED <<storeVars, hostVars, lock, made, bad, faulted>>
  /\ History(p)

(* RedeployJumpsIn: a redeploy that does not wait for its turn.             *)
RedeployJumpsIn(p) == lock = Nobody \/ cmd[p] = "redeploy"
CanLock(p) == lock = Nobody

Acquire(p) ==
  /\ At(p, "queued")
  /\ CanLock(p)
  /\ lock' = p
  /\ Goto(p, IF cmd[p] = "deploy" THEN "deploy_load" ELSE "destroy_load")
  /\ UNCHANGED <<storeVars, hostVars, frameVars, faulted>>
  /\ History(p)

(* Another holder outlives the deadline, or the lock file cannot be used.   *)
LockRefused(p) ==
  /\ At(p, "queued")
  /\ pc' = [pc EXCEPT ![p] = "done"]
  /\ \/ /\ lock # Nobody
        /\ result' = [result EXCEPT ![p] = "DEPLOYMENT_LOCKED"]
        /\ NoFault
     \/ /\ result' = [result EXCEPT ![p] = "failed"]
        /\ Fault(p)
  /\ UNCHANGED <<storeVars, hostVars, frameVars, todo, lock>>
  /\ History(p)

(* A release that fails is an error of a command that had none.             *)
Unlock(p) ==
  /\ At(p, "unlock")
  /\ lock' = Nobody
  /\ pc' = [pc EXCEPT ![p] = "done"]
  /\ \/ UNCHANGED result /\ NoFault
     \/ result[p] \in Successes /\ result' = [result EXCEPT ![p] = "failed"] /\ Fault(p)
  /\ UNCHANGED <<storeVars, hostVars, frameVars, todo>>
  /\ History(p)

(* An invocation that is gone keeps nothing.                                *)
Forget(p) ==
  /\ cmd' = [cmd EXCEPT ![p] = "deploy"]
  /\ plan' = [plan EXCEPT ![p] = SomeTopo]
  /\ topo' = [topo EXCEPT ![p] = SomeTopo]
  /\ made' = [made EXCEPT ![p] = {}]
  /\ bad' = [bad EXCEPT ![p] = FALSE]
  /\ faulted' = faulted \ {p}
  /\ pc' = [pc EXCEPT ![p] = "idle"]
  /\ todo' = [todo EXCEPT ![p] = {}]
  /\ result' = [result EXCEPT ![p] = "none"]

Exit(p) ==
  /\ At(p, "done")
  /\ Forget(p)
  /\ UNCHANGED <<storeVars, hostVars, lock>>
  /\ History(p)

-----------------------------------------------------------------------------
(* deploy, up to the write-ahead entry.                                     *)

DeployLoad(p) ==
  /\ At(p, "deploy_load")
  /\ \/ Fails(p) /\ Fault(p)
     \/ /\ NoFault
        /\ \/ disk = NoSnapshot /\ Goto(p, "preflight")
           \/ Interrupted(disk) /\ Finish(p, "DEPLOYMENT_INTERRUPTED")
           \/ /\ Stable(disk)
              /\ IF disk.topo # plan[p] THEN Finish(p, "DEPLOYMENT_CONFLICT")
                                        ELSE Goto(p, "compare")
  /\ topo' = [topo EXCEPT ![p] = plan[p]]
  /\ UNCHANGED <<storeVars, hostVars, lock, cmd, plan, made, bad>>
  /\ History(p)

(* StopWhenDrifted: stop a routing runtime that is found not ready.         *)
StopWhenDrifted(p) ==
  /\ At(p, "compare")
  /\ ~RoutingReady(topo[p])
  /\ Finish(p, "DEPLOYMENT_DRIFT")
  /\ frr' = NoRuntime
  /\ UNCHANGED <<storeVars, phase, veth, lock, frameVars, faulted>>
  /\ History(p)

Compare(p) ==
  /\ At(p, "compare")
  /\ \/ Fails(p) /\ Fault(p)
     \/ /\ NoFault
        /\ Finish(p, IF InventoryMatches(topo[p]) /\ RoutingReady(topo[p])
                       THEN "unchanged" ELSE "DEPLOYMENT_DRIFT")
  /\ UNCHANGED <<storeVars, hostVars, lock, frameVars>>
  /\ History(p)

Preflight(p) ==
  /\ At(p, "preflight")
  /\ \/ Fails(p) /\ Fault(p)
     \/ /\ NoFault
        /\ IF InventoryIsAbsent(topo[p]) THEN Goto(p, "journal_deploying")
                                         ELSE Finish(p, "OWNERSHIP_UNKNOWN")
  /\ UNCHANGED <<storeVars, hostVars, lock, frameVars>>
  /\ History(p)

(* _save_initial_transition: whatever it raises is raised again, and what   *)
(* it may have committed stays.  JournalledInDoubt: go on after a save that *)
(* may not be durable.                                                      *)
JournalledInDoubt(outcome) == outcome \in {"ok", "uncertain"}
Journalled(outcome) == outcome = "ok"

JournalDeploying(p) ==
  /\ At(p, "journal_deploying")
  /\ \E outcome \in WriteOutcomes :
       /\ Save(Entry(topo[p], "deploying"), outcome)
       /\ IF Journalled(outcome)
            THEN GotoWith(p, "create_namespaces", NodesOf[topo[p]]) /\ NoFault
            ELSE Fails(p) /\ Fault(p)
  /\ UNCHANGED <<hostVars, lock, frameVars>>
  /\ History(p)

-----------------------------------------------------------------------------
(* deploy, the build inside the try block.                                  *)

(* The next loop and its items, once the current one is through.            *)
EndStage(p) ==
  /\ todo[p] = {}
  /\ \/ At(p, "create_namespaces") /\ GotoWith(p, "create_bridges", BridgesOf[topo[p]])
     \/ At(p, "create_bridges") /\ GotoWith(p, "create_veths", LinksOf[topo[p]])
     \/ At(p, "create_veths") /\ GotoWith(p, "configure", NodesOf[topo[p]])
     \/ At(p, "configure") /\ Goto(p, "start_routing")
  /\ UNCHANGED <<storeVars, hostVars, lock, frameVars, faulted>>
  /\ History(p)

(* A name that exists is refused by the kernel.  An error that escapes once *)
(* the kernel has the namespace leaves one created_namespaces never lists.  *)
CreateNamespace(p) ==
  /\ At(p, "create_namespaces")
  /\ \E n \in todo[p] :
       \/ /\ phase[n] = "absent"
          /\ phase' = [phase EXCEPT ![n] = "bare"]
          /\ \/ Done(p, n) /\ made' = [made EXCEPT ![p] = @ \cup {n}] /\ UNCHANGED bad /\ NoFault
             \/ RollBack(p) /\ UNCHANGED made /\ Fault(p)
       \/ /\ RollBack(p)
          /\ IF phase[n] = "absent" THEN Fault(p) ELSE NoFault
          /\ UNCHANGED <<phase, made>>
  /\ UNCHANGED <<storeVars, veth, frr, lock, cmd, plan, topo>>
  /\ History(p)

CreateBridge(p) ==
  /\ At(p, "create_bridges")
  /\ \E n \in todo[p] :
       \/ /\ phase[n] = "bare"
          /\ phase' = [phase EXCEPT ![n] = "bridged"]
          /\ \/ Done(p, n) /\ UNCHANGED bad /\ NoFault
             \/ RollBack(p) /\ Fault(p)
       \/ /\ RollBack(p)
          /\ IF phase[n] = "bare" THEN Fault(p) ELSE NoFault
          /\ UNCHANGED phase
  /\ UNCHANGED <<storeVars, veth, frr, lock, cmd, plan, topo, made>>
  /\ History(p)

(* The pair is made in the root namespace and its ends are moved one by     *)
(* one.  A failing call cleans up as far as it can and may leave the pair   *)
(* anywhere on its way.                                                     *)
Residues(l) == {{}, {Root}, Ends[l]} \cup {{Root, n} : n \in Ends[l]}

CreateVeth(p) ==
  /\ At(p, "create_veths")
  /\ \E l \in todo[p] :
       LET possible == veth[l] = {} /\ \A n \in Ends[l] : phase[n] # "absent" IN
       \/ /\ possible
          /\ \/ Done(p, l) /\ veth' = [veth EXCEPT ![l] = Ends[l]] /\ UNCHANGED bad /\ NoFault
             \/ /\ RollBack(p) /\ Fault(p)
                /\ \E left \in Residues(l) : veth' = [veth EXCEPT ![l] = left]
       \/ ~possible /\ RollBack(p) /\ UNCHANGED veth /\ NoFault
  /\ UNCHANGED <<storeVars, phase, frr, lock, cmd, plan, topo, made>>
  /\ History(p)

Configurable(n, t) ==
  /\ phase[n] = IF n \in BridgesOf[t] THEN "bridged" ELSE "bare"
  /\ \A l \in LinksOf[t] : n \in Ends[l] => veth[l] = Ends[l]

ConfigureNode(p) ==
  /\ At(p, "configure")
  /\ \E n \in todo[p] :
       \/ /\ Configurable(n, topo[p])
          /\ \/ Done(p, n) /\ phase' = [phase EXCEPT ![n] = "ready"] /\ UNCHANGED bad /\ NoFault
             \/ RollBack(p) /\ UNCHANGED phase /\ Fault(p)
       \/ ~Configurable(n, topo[p]) /\ RollBack(p) /\ UNCHANGED phase /\ NoFault
  /\ UNCHANGED <<storeVars, veth, frr, lock, cmd, plan, topo, made>>
  /\ History(p)

StartRouting(p) ==
  /\ At(p, "start_routing")
  /\ \/ /\ topo[p] \in Routed => ~RuntimeRefuses(topo[p])
        /\ frr' = IF topo[p] \in Routed THEN Entry(topo[p], "up") ELSE frr
        /\ Goto(p, "verify") /\ UNCHANGED bad /\ NoFault
     \/ /\ topo[p] \in Routed /\ RuntimeRefuses(topo[p])
        /\ RollBack(p) /\ UNCHANGED frr /\ NoFault
     \/ /\ topo[p] \in Routed /\ ~RuntimeRefuses(topo[p])
        /\ frr' \in {NoRuntime} \cup {Entry(topo[p], s) : s \in {"part", "torn"}}
        /\ RollBack(p) /\ Fault(p)
  /\ UNCHANGED <<storeVars, phase, veth, lock, cmd, plan, topo, made>>
  /\ History(p)

Verify(p) ==
  /\ At(p, "verify")
  /\ \/ RollBack(p) /\ Fault(p)
     \/ /\ NoFault
        /\ IF InventoryMatches(topo[p]) /\ RoutingReady(topo[p])
             THEN Goto(p, "journal_deployed") /\ UNCHANGED bad
             ELSE RollBack(p)
  /\ UNCHANGED <<storeVars, hostVars, lock, cmd, plan, topo, made>>
  /\ History(p)

-----------------------------------------------------------------------------
(* deploy, the commit of the "deployed" entry.                              *)

JournalDeployed(p) ==
  /\ At(p, "journal_deployed")
  /\ \E outcome \in WriteOutcomes :
       /\ Save(Entry(topo[p], "deployed"), outcome)
       /\ \/ outcome = "ok" /\ Finish(p, "deployed") /\ UNCHANGED bad /\ NoFault
          \/ outcome = "plain" /\ RollBack(p) /\ Fault(p)
          \/ /\ outcome \in {"uncertain", "interrupt"}
             /\ Goto(p, "reconcile") /\ UNCHANGED bad /\ Fault(p)
  /\ UNCHANGED <<hostVars, lock, cmd, plan, topo, made>>
  /\ History(p)

(* Read back what an uncertain save left: a committed entry, or a doubt,    *)
(* keeps the topology; anything else rolls it back.  NeverKept: every save  *)
(* that raised is taken for a failed one.                                   *)
NeverKept(p) == FALSE
Kept(p) == disk = Entry(topo[p], "deployed")

Reconcile(p) ==
  /\ At(p, "reconcile")
  /\ \/ Fails(p) /\ UNCHANGED bad
     \/ IF Kept(p) THEN Fails(p) /\ UNCHANGED bad ELSE RollBack(p)
  /\ UNCHANGED <<storeVars, hostVars, lock, cmd, plan, topo, made, faulted>>
  /\ History(p)

-----------------------------------------------------------------------------
(* Namespace removal and routing shutdown, as rollback and destroy use      *)
(* them: "missing" is RESOURCE_MISSING, "error" any other exception.        *)

RemoveNamespace(n, outcome) ==
  \/ outcome = "ok"      /\ phase[n] # "absent" /\ DropNamespace(n)
  \/ outcome = "missing" /\ phase[n] = "absent" /\ UNCHANGED <<phase, veth>>
  \/ outcome = "error"   /\ (UNCHANGED <<phase, veth>> \/ DropNamespace(n))

StopRouting(t, outcome) ==
  \/ outcome = "ok" /\ t \notin Routed /\ UNCHANGED frr
  \/ outcome = "ok" /\ t \in Routed /\ ~RuntimeRefuses(t) /\ frr' = NoRuntime
  \/ outcome = "refused" /\ t \in Routed /\ RuntimeRefuses(t) /\ UNCHANGED frr
  \/ /\ outcome = "error" /\ t \in Routed /\ ~RuntimeRefuses(t)
     /\ \/ UNCHANGED frr
        \/ frr # NoRuntime /\ frr' \in {NoRuntime} \cup {Entry(t, s) : s \in {"part", "torn"}}

-----------------------------------------------------------------------------
(* _rollback_and_attach                                                     *)

(* What the two removal loops take for a deleted namespace.                 *)
(* MissingIsAnError: RESOURCE_MISSING counts as a failure.                  *)
MissingIsAnError(outcome) == outcome = "ok"
Gone(outcome) == outcome \in {"ok", "missing"}

(* No error so far, and nothing left: only then may the journal go.         *)
(* CleanedUpUnseen: trust the loops and do not look at the kernel again.    *)
CleanedUpUnseen(p) == ~bad[p]
CleanedUp(p) == ~bad[p] /\ InventoryIsAbsent(topo[p])

RollbackRouting(p) ==
  /\ At(p, "rollback_routing")
  /\ \E outcome \in {"ok", "refused", "error"} :
       /\ StopRouting(topo[p], outcome)
       /\ IF outcome = "ok" THEN UNCHANGED bad ELSE SetBad(p)
       /\ IF outcome = "error" THEN Fault(p) ELSE NoFault
  /\ GotoWith(p, "rollback_namespaces", made[p])
  /\ UNCHANGED <<storeVars, phase, veth, lock, cmd, plan, topo, made>>
  /\ History(p)

RollbackNamespace(p) ==
  /\ At(p, "rollback_namespaces")
  /\ \E n \in todo[p], outcome \in {"ok", "missing", "error"} :
       /\ RemoveNamespace(n, outcome)
       /\ IF Gone(outcome) THEN UNCHANGED bad ELSE SetBad(p)
       /\ IF outcome = "error" THEN Fault(p) ELSE NoFault
       /\ Done(p, n)
  /\ UNCHANGED <<storeVars, frr, lock, cmd, plan, topo, made>>
  /\ History(p)

RollbackInventory(p) ==
  /\ At(p, "rollback_namespaces")
  /\ todo[p] = {}
  /\ \/ Fails(p) /\ Fault(p)
     \/ /\ NoFault
        /\ IF CleanedUp(p) THEN Goto(p, "rollback_state") ELSE Fails(p)
  /\ UNCHANGED <<storeVars, hostVars, lock, frameVars>>
  /\ History(p)

(* _remove_rollback_state: only the entry this deploy wrote is deleted.     *)
RollbackState(p) ==
  /\ At(p, "rollback_state")
  /\ \/ Fails(p) /\ Untouched /\ Fault(p)
     \/ disk # Entry(topo[p], "deploying") /\ Fails(p) /\ Untouched /\ NoFault
     \/ /\ disk = Entry(topo[p], "deploying")
        /\ \E outcome \in DeleteOutcomes :
             /\ Delete(outcome)
             /\ IF outcome = "uncertain" THEN Goto(p, "rollback_retry") ELSE Fails(p)
             /\ IF outcome = "ok" THEN NoFault ELSE Fault(p)
  /\ UNCHANGED <<hostVars, lock, frameVars>>
  /\ History(p)

(* _DeleteGate.retry_safe: both the journal and the kernel were read, the   *)
(* entry is still the one written here, and nothing of it is live.          *)
RetrySafe(p, s) == disk = Entry(topo[p], s) /\ InventoryIsAbsent(topo[p])

RollbackRetry(p) ==
  /\ At(p, "rollback_retry")
  /\ \/ Untouched
     \/ RetrySafe(p, "deploying") /\ \E outcome \in DeleteOutcomes : Delete(outcome)
  /\ Fails(p)
  /\ UNCHANGED <<hostVars, lock, frameVars, faulted>>
  /\ History(p)

-----------------------------------------------------------------------------
(* _destroy_locked                                                          *)

DestroyLoad(p) ==
  /\ At(p, "destroy_load")
  /\ \/ Fails(p) /\ UNCHANGED topo /\ Fault(p)
     \/ /\ NoFault
        /\ \/ disk = NoSnapshot /\ Goto(p, "destroy_absent") /\ UNCHANGED topo
           \/ Interrupted(disk) /\ Finish(p, "DEPLOYMENT_INTERRUPTED") /\ UNCHANGED topo
           \/ /\ Stable(disk)
              /\ topo' = [topo EXCEPT ![p] = disk.topo]
              /\ Goto(p, "journal_destroying")
  /\ UNCHANGED <<storeVars, hostVars, lock, cmd, plan, made, bad>>
  /\ History(p)

(* redeploy continues with its deploy half once the destroy half is through. *)
Destroyed(p, code) ==
  IF cmd[p] = "redeploy" THEN Goto(p, "deploy_load") ELSE Finish(p, code)

(* Without state nothing is deleted: the planned names must be absent.      *)
DestroyAbsent(p) ==
  /\ At(p, "destroy_absent")
  /\ \/ Fails(p) /\ Fault(p)
     \/ /\ NoFault
        /\ IF InventoryIsAbsent(topo[p]) THEN Goto(p, "stop_leftovers")
                                         ELSE Finish(p, "OWNERSHIP_UNKNOWN")
  /\ UNCHANGED <<storeVars, hostVars, lock, frameVars>>
  /\ History(p)

StopLeftovers(p) ==
  /\ At(p, "stop_leftovers")
  /\ \E outcome \in {"ok", "refused", "error"} :
       /\ StopRouting(topo[p], outcome)
       /\ IF outcome = "ok" THEN Destroyed(p, "absent") ELSE Fails(p)
       /\ IF outcome = "error" THEN Fault(p) ELSE NoFault
  /\ UNCHANGED <<storeVars, phase, veth, lock, frameVars>>
  /\ History(p)

JournalDestroying(p) ==
  /\ At(p, "journal_destroying")
  /\ \E outcome \in WriteOutcomes :
       /\ Save(Entry(topo[p], "destroying"), outcome)
       /\ IF Journalled(outcome) THEN Goto(p, "destroy_routing") /\ NoFault
                                 ELSE Fails(p) /\ Fault(p)
  /\ bad' = [bad EXCEPT ![p] = FALSE]
  /\ UNCHANGED <<hostVars, lock, cmd, plan, topo, made>>
  /\ History(p)

(* A routing error is remembered; the namespaces are deleted all the same.  *)
DestroyRouting(p) ==
  /\ At(p, "destroy_routing")
  /\ \E outcome \in {"ok", "refused", "error"} :
       /\ StopRouting(topo[p], outcome)
       /\ IF outcome = "ok" THEN UNCHANGED bad ELSE SetBad(p)
       /\ IF outcome = "error" THEN Fault(p) ELSE NoFault
  /\ GotoWith(p, "destroy_namespaces", NodesOf[topo[p]])
  /\ UNCHANGED <<storeVars, phase, veth, lock, cmd, plan, topo, made>>
  /\ History(p)

(* An error goes on with the next namespace, an interrupt leaves the loop.  *)
DestroyNamespace(p) ==
  /\ At(p, "destroy_namespaces")
  /\ \E n \in todo[p], outcome \in {"ok", "missing", "error"} :
       /\ RemoveNamespace(n, outcome)
       /\ IF Gone(outcome) THEN UNCHANGED bad ELSE SetBad(p)
       /\ \/ Done(p, n) /\ (IF outcome = "error" THEN Fault(p) ELSE NoFault)
          \/ outcome = "error" /\ GotoWith(p, pc[p], {}) /\ Fault(p)
  /\ UNCHANGED <<storeVars, frr, lock, cmd, plan, topo, made>>
  /\ History(p)

DestroyInventory(p) ==
  /\ At(p, "destroy_namespaces")
  /\ todo[p] = {}
  /\ \/ Fails(p) /\ Fault(p)
     \/ /\ NoFault
        /\ IF CleanedUp(p) THEN Goto(p, "delete_state") ELSE Fails(p)
  /\ UNCHANGED <<storeVars, hostVars, lock, frameVars>>
  /\ History(p)

DeleteState(p) ==
  /\ At(p, "delete_state")
  /\ \E outcome \in DeleteOutcomes :
       /\ Delete(outcome)
       /\ \/ outcome = "ok" /\ Destroyed(p, "destroyed") /\ NoFault
          \/ outcome = "uncertain" /\ Goto(p, "delete_retry") /\ Fault(p)
          \/ outcome = "interrupt" /\ Fails(p) /\ Fault(p)
  /\ UNCHANGED <<hostVars, lock, frameVars>>
  /\ History(p)

(* RetryForEver: the retry is _delete_final_state itself, which may retry.  *)
RetryForEver(p) ==
  /\ At(p, "delete_retry")
  /\ \/ Untouched /\ Fails(p)
     \/ RetrySafe(p, "destroying") /\ Goto(p, "delete_state") /\ Untouched
  /\ UNCHANGED <<hostVars, lock, frameVars, faulted>>
  /\ History(p)

DeleteRetry(p) ==
  /\ At(p, "delete_retry")
  /\ \/ Untouched /\ Fails(p)
     \/ /\ RetrySafe(p, "destroying")
        /\ \E outcome \in DeleteOutcomes :
             /\ Delete(outcome)
             /\ IF outcome = "ok" THEN Destroyed(p, "destroyed") ELSE Fails(p)
  /\ UNCHANGED <<hostVars, lock, frameVars, faulted>>
  /\ History(p)

-----------------------------------------------------------------------------
(* What happens around the invocations.  None of it is nslab's doing.       *)

Spend(kind) ==
  /\ mishaps[kind] < MaxMishaps[kind]
  /\ mishaps' = [mishaps EXCEPT ![kind] = @ + 1]

Running == {p \in Procs : ~Idle(p)}

(* SIGKILL, or an interrupt outside every try block; the kernel drops the   *)
(* lock with the process.                                                   *)
Crash(p) ==
  /\ ~Idle(p)
  /\ lock' = IF lock = p THEN Nobody ELSE lock
  /\ Forget(p)
  /\ UNCHANGED <<storeVars, hostVars>>
  /\ History(p)

(* Someone else deletes, creates or reconfigures something in the kernel,   *)
(* or a routing daemon dies.                                                *)
Meddle ==
  /\ Spend("meddling")
  /\ \/ /\ \E n \in Namespaces :
             \/ phase[n] # "absent" /\ DropNamespace(n)
             \/ phase[n] = "absent" /\ phase' = [phase EXCEPT ![n] = "bare"] /\ UNCHANGED veth
             \/ phase[n] = "ready" /\ phase' = [phase EXCEPT ![n] = "bare"] /\ UNCHANGED veth
        /\ UNCHANGED frr
     \/ /\ frr # NoRuntime /\ frr.status = "up"
        /\ frr' = [frr EXCEPT !.status = "part"]
        /\ UNCHANGED <<phase, veth>>
  /\ disturbed' = TRUE
  /\ ours' = {n \in ours : phase'[n] # "absent"}
  /\ faulted' = faulted \cup Running
  /\ UNCHANGED <<storeVars, lock, frameVars, controlVars, born, author, touched>>

(* Everything but the file system goes: namespaces, processes, /run.  FRR's *)
(* configuration under /etc/frr stays behind with its markers.              *)
PowerLoss ==
  /\ Spend("outage")
  /\ LosePower
  /\ phase' = [n \in Namespaces |-> "absent"]
  /\ veth' = [l \in Links |-> {}]
  /\ frr' \in IF frr = NoRuntime THEN {NoRuntime}
              ELSE {Entry(frr.topo, IF frr.status = "torn" THEN "torn" ELSE "part")}
  /\ lock' = Nobody
  /\ pc' = [p \in Procs |-> "idle"]
  /\ result' = [p \in Procs |-> "none"]
  /\ cmd' = [p \in Procs |-> "deploy"]
  /\ plan' = [p \in Procs |-> SomeTopo]
  /\ topo' = [p \in Procs |-> SomeTopo]
  /\ todo' = [p \in Procs |-> {}]
  /\ made' = [p \in Procs |-> {}]
  /\ bad' = [p \in Procs |-> FALSE]
  /\ ours' = {} /\ author' = Nobody /\ disturbed' = TRUE
  /\ touched' = {} /\ faulted' = {}
  /\ UNCHANGED born

(* The operator deletes the journal file while no invocation holds the lock. *)
RemoveState ==
  /\ Spend("removal")
  /\ lock = Nobody
  /\ disk # NoSnapshot
  /\ Commit(NoSnapshot)
  /\ author' = Nobody
  /\ UNCHANGED <<hostVars, frameVars, controlVars, lock, faulted,
                 ours, born, disturbed, touched>>

-----------------------------------------------------------------------------
(* Specification.                                                           *)

Init ==
  /\ disk = NoSnapshot /\ durable = {NoSnapshot}
  /\ phase = [n \in Namespaces |-> "absent"]
  /\ veth = [l \in Links |-> {}]
  /\ frr = NoRuntime
  /\ lock = Nobody
  /\ pc = [p \in Procs |-> "idle"]
  /\ cmd = [p \in Procs |-> "deploy"]
  /\ plan = [p \in Procs |-> SomeTopo]
  /\ topo = [p \in Procs |-> SomeTopo]
  /\ todo = [p \in Procs |-> {}]
  /\ made = [p \in Procs |-> {}]
  /\ bad = [p \in Procs |-> FALSE]
  /\ result = [p \in Procs |-> "none"]
  /\ ours = {} /\ born = {} /\ author = Nobody /\ disturbed = FALSE
  /\ touched = {} /\ faulted = {}
  /\ mishaps = [k \in Mishaps |-> 0]

(* A started invocation's own steps; the scheduler keeps running it.        *)
Advance(p) ==
  \/ Acquire(p) \/ LockRefused(p) \/ Unlock(p) \/ Exit(p)
  \/ DeployLoad(p) \/ Compare(p) \/ Preflight(p) \/ JournalDeploying(p)
  \/ EndStage(p) \/ CreateNamespace(p) \/ CreateBridge(p) \/ CreateVeth(p)
  \/ ConfigureNode(p) \/ StartRouting(p) \/ Verify(p)
  \/ JournalDeployed(p) \/ Reconcile(p)
  \/ RollbackRouting(p) \/ RollbackNamespace(p) \/ RollbackInventory(p)
  \/ RollbackState(p) \/ RollbackRetry(p)
  \/ DestroyLoad(p) \/ DestroyAbsent(p) \/ StopLeftovers(p) \/ JournalDestroying(p)
  \/ DestroyRouting(p) \/ DestroyNamespace(p) \/ DestroyInventory(p)
  \/ DeleteState(p) \/ DeleteRetry(p)

Next ==
  \/ \E p \in Procs : Start(p) \/ Advance(p) \/ Crash(p)
  \/ Meddle
  \/ PowerLoss
  \/ RemoveState

Spec == Init /\ [][Next]_vars

(* A blocked flock is polled up to its deadline, every other call returns   *)
(* or raises: an invocation the scheduler keeps running takes its next step. *)
FairSpec == Spec /\ \A p \in Procs : WF_vars(Advance(p))

-----------------------------------------------------------------------------
(* Properties.                                                              *)

Codes == Successes \cup Refusals \cup {"none", "failed"}

Labels == {"idle", "queued", "unlock", "done",
           "deploy_load", "compare", "preflight", "journal_deploying",
           "create_namespaces", "create_bridges", "create_veths", "configure",
           "start_routing", "verify", "journal_deployed", "reconcile",
           "rollback_routing", "rollback_namespaces", "rollback_state", "rollback_retry",
           "destroy_load", "destroy_absent", "stop_leftovers", "journal_destroying",
           "destroy_routing", "destroy_namespaces", "delete_state", "delete_retry"}

StoreType ==
  /\ disk \in Snapshots \cup {NoSnapshot}
  /\ durable \subseteq Snapshots \cup {NoSnapshot} /\ disk \in durable

HostType ==
  /\ phase \in [Namespaces -> Phases]
  /\ veth \in [Links -> SUBSET (Namespaces \cup {Root})]
  /\ frr \in Runtimes \cup {NoRuntime}

FlowType ==
  /\ pc \in [Procs -> Labels]
  /\ todo \in [Procs -> SUBSET (Namespaces \cup Links)]
  /\ result \in [Procs -> Codes]

FrameType ==
  /\ cmd \in [Procs -> {"deploy", "destroy", "redeploy"}]
  /\ plan \in [Procs -> Topos] /\ topo \in [Procs -> Topos]
  /\ made \in [Procs -> SUBSET Namespaces]
  /\ bad \in [Procs -> BOOLEAN]

ControlType ==
  /\ FlowType /\ FrameType
  /\ lock \in Procs \cup {Nobody}
  /\ faulted \subseteq Procs

HistoryType ==
  /\ ours \subseteq Namespaces /\ born \subseteq Namespaces
  /\ author \in Procs \cup {Nobody}
  /\ disturbed \in BOOLEAN
  /\ touched \subseteq Procs
  /\ mishaps \in [Mishaps -> Nat]

(* Every variable has its type, and a power loss can always leave what is   *)
(* on disk now.                                                             *)
TypeOK == StoreType /\ HostType /\ ControlType /\ HistoryType

Critical(p) == pc[p] \notin {"idle", "queued", "done"}

(* No two invocations are ever inside the locked part of a command: the     *)
(* lock is held exactly by the one that is (lifecycle.py:126-145).          *)
MutualExclusion == \A p \in Procs : Critical(p) <=> lock = p

(* A snapshot accounts for everything nslab left in the kernel: the         *)
(* namespaces it created, its veth pairs and the routing runtime.           *)
Covers(d) ==
  /\ ours # {} => d # NoSnapshot /\ ours \subseteq NodesOf[d.topo]
  /\ \A l \in Links : veth[l] # {} => d # NoSnapshot /\ l \in LinksOf[d.topo]
  /\ frr # NoRuntime => d # NoSnapshot /\ frr.topo = d.topo

(* Nothing nslab created is ever orphaned: unless the operator removed the  *)
(* file, every journal entry a crash or a power loss can leave behind names *)
(* everything that is live (write-ahead in _save_initial_transition, delete *)
(* last in _delete_final_state and _remove_rollback_state).                 *)
LiveIsRecorded == mishaps["removal"] = 0 => \A d \in durable : Covers(d)

(* A visible "deployed" entry tells the truth: whatever saves failed or     *)
(* invocations died on the way, the whole topology is up, unless someone    *)
(* else has changed the kernel since it was verified.                       *)
DeployedIsVerified ==
  (disk # NoSnapshot /\ disk.status = "deployed" /\ ~disturbed) =>
     InventoryMatches(disk.topo) /\ RoutingReady(disk.topo)

(* deploy and destroy that refuse, for a foreign resource, a conflict, an   *)
(* interrupted entry, drift or a busy lock, have changed nothing at all.    *)
RefusalTouchesNothing ==
  \A p \in Procs : (cmd[p] # "redeploy" /\ result[p] \in Refusals) => p \notin touched

(* An invocation that reports a change has made it durable: no power loss   *)
(* brings the previous entry back.                                          *)
SuccessIsDurable ==
  \A p \in Procs : At(p, "unlock") =>
    /\ result[p] = "deployed"  => durable = {Entry(plan[p], "deployed")}
    /\ result[p] = "destroyed" => durable = {NoSnapshot}

(* Errors have a cause: an invocation that met no fault and no interference *)
(* succeeds or refuses, even when it destroys a topology others have torn   *)
(* up, as long as nobody removed the journal.                               *)
CleanRunSucceeds ==
  mishaps["removal"] = 0 =>
    \A p \in Procs : result[p] = "failed" => p \in faulted

(* What a step of an invocation may change in the kernel is decided by the  *)
(* journal: only under a durable transient entry, written by this very      *)
(* invocation, and only names that entry covers.  An entry some other       *)
(* invocation left half-way is never adopted.  (Without any entry destroy   *)
(* may only stop a leftover routing runtime.)                               *)
JournalledStep ==
  \A p \in Procs : (Advance(p) /\ <<phase, veth>>' # <<phase, veth>>) =>
    /\ author = p
    /\ \A d \in durable : Transient(d) /\ d.topo = topo[p]
    /\ \A n \in Namespaces : phase'[n] # phase[n] => n \in NodesOf[topo[p]]
WriteAhead == [][JournalledStep]_vars

(* A namespace nslab did not create is deleted only under a name nslab      *)
(* itself had created for the journalled deployment (someone replaced it    *)
(* behind its back): rollback spares a name that was taken before it could  *)
(* be created, and destroy never acts on an entry whose build did not end.  *)
ForeignSparedStep ==
  \A p \in Procs, n \in Namespaces :
    (Advance(p) /\ phase[n] # "absent" /\ phase'[n] = "absent" /\ n \notin ours) => n \in born
ForeignSpared == [][ForeignSparedStep]_vars

(* The entry of an interrupted deploy or destroy stays as it is until the   *)
(* operator removes it or the machine loses power: only the invocation that *)
(* wrote it may move it on.                                                 *)
InterruptedStep ==
  \A p \in Procs : (Advance(p) /\ Transient(disk) /\ disk' # disk) => author = p
InterruptedStays == [][InterruptedStep]_vars

(* Every invocation ends and gives the lock back, whatever fails.           *)
Terminates == \A p \in Procs : pc[p] # "idle" ~> pc[p] = "idle"

(* inspect's summary status (inspector.py:1839-1849), for any invocation.   *)
InspectStatus(t) ==
  IF InventoryIsAbsent(t) THEN (IF disk = NoSnapshot THEN "absent" ELSE "stale")
  ELSE IF disk = Entry(t, "deployed") /\ InventoryMatches(t) THEN "deployed"
  ELSE "degraded"

(* docs/cli.md:34-35, "To perform an exact destroy after state has already  *)
(* disappeared, pass the original --topo and --name": destroy with the      *)
(* original topology does not refuse resources that nslab created.          *)
DestroyWithoutState ==
  \A p \in Procs :
    (At(p, "unlock") /\ cmd[p] = "destroy" /\ result[p] = "OWNERSHIP_UNKNOWN") =>
      \E n \in NodesOf[plan[p]] : phase[n] # "absent" /\ n \notin ours

(* docs/getting-started.md:100-101, on recovering a degraded deployment:    *)
(* "After confirming that the resources belong to that deployment, use the  *)
(* same YAML with destroy or redeploy": destroy does not refuse a degraded  *)
(* deployment whose resources are all nslab's.                              *)
DegradedCanBeDestroyed ==
  \A p \in Procs :
    (At(p, "unlock") /\ cmd[p] = "destroy" /\ InspectStatus(plan[p]) = "degraded"
       /\ disk # NoSnapshot /\ disk.topo = plan[p]
       /\ \A n \in NodesOf[plan[p]] : phase[n] # "absent" => n \in ours)
    => result[p] \notin Refusals

-----------------------------------------------------------------------------
(* The abstract journal this module implements, and what it calls assets.   *)

Asset(kind, name) == [kind |-> kind, name |-> name]
Built(ns, ls, ts) == {Asset("namespace", n) : n \in ns} \cup {Asset("veth", l) : l \in ls}
                       \cup {Asset("routing", t) : t \in ts}

Journal == INSTANCE OwnershipJournal WITH
  entry    <- disk,
  memory   <- durable,
  assets   <- Built(ours, {l \in Links : veth[l] # {}},
                    IF frr = NoRuntime THEN {} ELSE {frr.topo}),
  AssetsOf <- [t \in Topos |-> Built(NodesOf[t], LinksOf[t], {t} \cap Routed)],
  NoEntry  <- NoSnapshot

(* The service keeps the promise of the abstract journal, as long as the    *)
(* operator does not remove the file (lifecycle.py:147-415, 653-1047).      *)
ImplementsJournal == Journal!Spec
=============================================================================
