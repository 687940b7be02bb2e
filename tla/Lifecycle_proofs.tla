-------------------------- MODULE Lifecycle_proofs --------------------------
(***************************************************************************)
(* Proofs about Lifecycle for any number of invocations, topologies and    *)
(* outside events.                                                         *)
(*                                                                         *)
(* What the lock, the journal and the kernel hold:                         *)
(*   TypeCorrect             every variable has its type                   *)
(*   LockExcludes            MutualExclusion                               *)
(*   NothingIsOrphaned       LiveIsRecorded                                *)
(* The first two are inductive with little help.  The last one needs to    *)
(* know what the journal holds wherever an invocation stands (JournalAt),  *)
(* that nothing is live once an invocation is about to erase the journal   *)
(* (ClearedAt), and how the kernel's objects hang together (Kernel).       *)
(*                                                                         *)
(* What invocations change and report, on top of that invariant IInv:      *)
(*   WriteAheadAlways        WriteAhead                                    *)
(*   InterruptedEntriesStay  InterruptedStays                              *)
(*   ForeignIsSpared         ForeignSpared                                 *)
(*   DeployedIsTrue          DeployedIsVerified                            *)
(*   SuccessSurvives         SuccessIsDurable                              *)
(*   RefusalsAreHarmless     RefusalTouchesNothing                         *)
(* Each needs to know something of an invocation's past; invariants tie    *)
(* what it did to the label it stands at.                                  *)
(*                                                                         *)
(* Errors have a cause:                                                    *)
(*   CleanRunsSucceed        CleanRunSucceeds                              *)
(* An invocation that met no fault has come exactly as far as its label    *)
(* says (CleanAt), and a "deployed" entry stands for a whole deployment.   *)
(*                                                                         *)
(* The refinement:                                                         *)
(*   LifecycleImplementsJournal                                            *)
(* The initial state of Lifecycle maps to that of OwnershipJournal, and    *)
(* every step to a step of the journal or to a stutter, in a world where   *)
(* nobody removes the journal file by hand.                                *)
(*                                                                         *)
(* And the journal it implements:                                          *)
(*   JournalTypeCorrect      every variable has its type                   *)
(*   JournalAccounts         NoOrphans                                     *)
(***************************************************************************)
EXTENDS Lifecycle, TLAPS

(* What is left of a loop is part of what the loop is over.                 *)
LoopItems(p) ==
  /\ pc[p] \in {"create_namespaces", "configure", "destroy_namespaces"} =>
       todo[p] \subseteq NodesOf[topo[p]]
  /\ pc[p] = "create_bridges" => todo[p] \subseteq BridgesOf[topo[p]]
  /\ pc[p] = "create_veths" => todo[p] \subseteq LinksOf[topo[p]]
  /\ pc[p] = "rollback_namespaces" => todo[p] \subseteq Namespaces

TypeInv == TypeOK /\ \A p \in Procs : LoopItems(p)

Building == {"create_namespaces", "create_bridges", "create_veths", "configure",
             "start_routing", "verify", "journal_deployed", "rollback_routing",
             "rollback_namespaces", "rollback_state"}
Removing == {"destroy_routing", "destroy_namespaces", "delete_state"}

(* The journal is what the step at hand needs it to be.                     *)
JournalAt(p) ==
  /\ pc[p] \in {"preflight", "journal_deploying"} => disk = NoSnapshot
  /\ pc[p] = "journal_destroying" => disk = Entry(topo[p], "deployed")
  /\ pc[p] \in Building => durable = {Entry(topo[p], "deploying")}
  /\ pc[p] = "reconcile" => \/ disk = Entry(topo[p], "deployed")
                            \/ durable = {Entry(topo[p], "deploying")}
  /\ pc[p] \in Removing => durable = {Entry(topo[p], "destroying")}

(* The routing runtime is gone unless its removal failed, and nothing at    *)
(* all is left once the journal entry is to be erased.                      *)
NothingLive == ours = {} /\ (\A l \in Links : veth[l] = {}) /\ frr = NoRuntime
ClearedAt(p) ==
  /\ (pc[p] \in {"rollback_namespaces", "destroy_namespaces"} /\ ~bad[p]) => frr = NoRuntime
  /\ pc[p] \in {"rollback_state", "rollback_retry", "delete_state", "delete_retry"} => NothingLive

(* Namespaces of ours exist, a veth end is in one of its own namespaces     *)
(* that exists or in the root namespace, and only routed topologies have a  *)
(* routing runtime.                                                         *)
Kernel ==
  /\ \A n \in ours : phase[n] # "absent"
  /\ \A l \in Links : veth[l] \subseteq Ends[l] \cup {Root}
  /\ \A l \in Links, n \in Namespaces : n \in veth[l] => phase[n] # "absent"
  /\ frr # NoRuntime => frr.topo \in Routed

IInv ==
  /\ Kernel
  /\ \A p \in Procs : JournalAt(p)
  /\ mishaps["removal"] = 0 => (\A d \in durable : Covers(d)) /\ (\A p \in Procs : ClearedAt(p))

(* The topology an idle invocation is given is one.                         *)
LEMMA SomeTopoType == SomeTopo \in Topos
  BY TopologyAssumption DEF SomeTopo

-----------------------------------------------------------------------------
(* Who may change what.                                                     *)

(* The journal file is written by seven steps only.                         *)
LEMMA StoreActions ==
  ASSUME NEW p \in Procs, Advance(p), storeVars' # storeVars
  PROVE  JournalDeploying(p) \/ JournalDeployed(p) \/ RollbackState(p) \/ RollbackRetry(p)
           \/ JournalDestroying(p) \/ DeleteState(p) \/ DeleteRetry(p)
  BY DEF Advance, Acquire, LockRefused, Unlock, Exit, DeployLoad, Compare, Preflight,
     EndStage, CreateNamespace, CreateBridge, CreateVeth, ConfigureNode, StartRouting,
     Verify, Reconcile, RollbackRouting, RollbackNamespace, RollbackInventory, DestroyLoad,
     DestroyAbsent, StopLeftovers, DestroyRouting, DestroyNamespace, DestroyInventory

(* The kernel and the routing runtime are changed by ten.                   *)
LEMMA HostActions ==
  ASSUME NEW p \in Procs, Advance(p), hostVars' # hostVars
  PROVE  CreateNamespace(p) \/ CreateBridge(p) \/ CreateVeth(p) \/ ConfigureNode(p)
           \/ StartRouting(p) \/ RollbackRouting(p) \/ RollbackNamespace(p)
           \/ StopLeftovers(p) \/ DestroyRouting(p) \/ DestroyNamespace(p)
  BY DEF Advance, hostVars, Acquire, LockRefused, Unlock, Exit, DeployLoad, Compare,
     Preflight, JournalDeploying, EndStage, Verify, JournalDeployed, Reconcile,
     RollbackInventory, RollbackState, RollbackRetry, DestroyLoad, DestroyAbsent,
     JournalDestroying, DestroyInventory, DeleteState, DeleteRetry

(* No step of one invocation moves another.                                 *)
LEMMA Locality ==
  ASSUME TypeOK, NEW p \in Procs, NEW q \in Procs \ {p}, Advance(p) \/ Start(p) \/ Crash(p)
  PROVE  /\ pc'[q] = pc[q] /\ todo'[q] = todo[q] /\ topo'[q] = topo[q] /\ bad'[q] = bad[q]
         /\ cmd'[q] = cmd[q] /\ plan'[q] = plan[q] /\ made'[q] = made[q] /\ result'[q] = result[q]
<1> USE DEF TypeOK, ControlType, FrameType, FlowType, frameVars, Goto, GotoWith, Done,
            Finish, Fails, SetBad, RollBack, Forget, Destroyed
<1>1. CASE Acquire(p)
  BY <1>1 DEF Acquire
<1>2. CASE LockRefused(p)
  BY <1>2 DEF LockRefused
<1>3. CASE Unlock(p)
  BY <1>3 DEF Unlock
<1>4. CASE Exit(p)
  BY <1>4 DEF Exit
<1>5. CASE DeployLoad(p)
  BY <1>5 DEF DeployLoad
<1>6. CASE Compare(p)
  BY <1>6 DEF Compare
<1>7. CASE Preflight(p)
  BY <1>7 DEF Preflight
<1>8. CASE JournalDeploying(p)
  BY <1>8 DEF JournalDeploying
<1>9. CASE EndStage(p)
  BY <1>9 DEF EndStage
<1>10. CASE CreateNamespace(p)
  BY <1>10 DEF CreateNamespace
<1>11. CASE CreateBridge(p)
  BY <1>11 DEF CreateBridge
<1>12. CASE CreateVeth(p)
  BY <1>12 DEF CreateVeth
<1>13. CASE ConfigureNode(p)
  BY <1>13 DEF ConfigureNode
<1>14. CASE StartRouting(p)
  BY <1>14 DEF StartRouting
<1>15. CASE Verify(p)
  BY <1>15 DEF Verify
<1>16. CASE JournalDeployed(p)
  BY <1>16 DEF JournalDeployed
<1>17. CASE Reconcile(p)
  BY <1>17 DEF Reconcile
<1>18. CASE RollbackRouting(p)
  BY <1>18 DEF RollbackRouting
<1>19. CASE RollbackNamespace(p)
  BY <1>19 DEF RollbackNamespace
<1>20. CASE RollbackInventory(p)
  BY <1>20 DEF RollbackInventory
<1>21. CASE RollbackState(p)
  BY <1>21 DEF RollbackState
<1>22. CASE RollbackRetry(p)
  BY <1>22 DEF RollbackRetry
<1>23. CASE DestroyLoad(p)
  BY <1>23 DEF DestroyLoad
<1>24. CASE DestroyAbsent(p)
  BY <1>24 DEF DestroyAbsent
<1>25. CASE StopLeftovers(p)
  BY <1>25 DEF StopLeftovers
<1>26. CASE JournalDestroying(p)
  BY <1>26 DEF JournalDestroying
<1>27. CASE DestroyRouting(p)
  BY <1>27 DEF DestroyRouting
<1>28. CASE DestroyNamespace(p)
  BY <1>28 DEF DestroyNamespace
<1>29. CASE DestroyInventory(p)
  BY <1>29 DEF DestroyInventory
<1>30. CASE DeleteState(p)
  BY <1>30 DEF DeleteState
<1>31. CASE DeleteRetry(p)
  BY <1>31 DEF DeleteRetry
<1>32. CASE Start(p)
  BY <1>32 DEF Start
<1>33. CASE Crash(p)
  BY <1>33 DEF Crash
<1> QED BY <1>1, <1>2, <1>3, <1>4, <1>5, <1>6, <1>7, <1>8, <1>9, <1>10, <1>11, <1>12, <1>13,
           <1>14, <1>15, <1>16, <1>17, <1>18, <1>19, <1>20, <1>21, <1>22, <1>23, <1>24,
           <1>25, <1>26, <1>27, <1>28, <1>29, <1>30, <1>31, <1>32, <1>33 DEF Advance

-----------------------------------------------------------------------------
(* Types.                                                                   *)

LEMMA GotoWithType ==
  ASSUME FlowType, NEW p \in Procs, NEW label \in Labels,
         NEW items \in SUBSET (Namespaces \cup Links), GotoWith(p, label, items)
  PROVE  FlowType'
  BY DEF GotoWith, FlowType

(* Jumps keep the control variables well typed; so do the next lemmas.      *)
LEMMA GotoType ==
  ASSUME FlowType, NEW p \in Procs, NEW label \in Labels, Goto(p, label)
  PROVE  FlowType'
  BY GotoWithType DEF Goto, FlowType

(* Going on with the rest of a loop.                                        *)
LEMMA DoneType ==
  ASSUME FlowType, NEW p \in Procs, NEW item, Done(p, item)
  PROVE  FlowType'
<1>1. pc[p] \in Labels /\ todo[p] \ {item} \in SUBSET (Namespaces \cup Links)
  BY DEF FlowType
<1> QED BY <1>1, GotoWithType DEF Done

(* Leaving the locked block with a code.                                    *)
LEMMA FinishType ==
  ASSUME FlowType, NEW p \in Procs, NEW code \in Codes, Finish(p, code)
  PROVE  FlowType'
  BY DEF Finish, FlowType, Labels

(* Leaving it with an error.                                                *)
LEMMA FailsType ==
  ASSUME FlowType, NEW p \in Procs, Fails(p)
  PROVE  FlowType'
  BY FinishType DEF Fails, Codes

(* The end of the destroy half, of destroy or of redeploy.                  *)
LEMMA DestroyedType ==
  ASSUME FlowType, NEW p \in Procs, NEW code \in Codes, Destroyed(p, code)
  PROVE  FlowType'
<1>1. "deploy_load" \in Labels
  BY DEF Labels
<1> QED BY <1>1, FinishType, GotoType DEF Destroyed

(* Entering _rollback_and_attach.                                           *)
LEMMA RollBackType ==
  ASSUME FlowType, FrameType, NEW p \in Procs, RollBack(p)
  PROVE  FlowType' /\ bad' \in [Procs -> BOOLEAN]
<1>1. "rollback_routing" \in Labels
  BY DEF Labels
<1> QED BY <1>1, GotoWithType DEF RollBack, FrameType

(* No step takes pc, todo and result out of their types.                    *)
LEMMA FlowStep ==
  ASSUME TypeOK, NEW p \in Procs, Advance(p)
  PROVE  FlowType'
<1> USE DEF TypeOK, ControlType
<1> USE GotoWithType, GotoType, DoneType, FinishType, FailsType, DestroyedType, RollBackType
<1>1. CASE Acquire(p)
  BY <1>1 DEF Acquire, Labels, Codes, Successes, Refusals
<1>2. CASE LockRefused(p)
  BY <1>2 DEF LockRefused, Forget, NoFault, Labels, Codes, Successes, Refusals, FlowType
<1>3. CASE Unlock(p)
  BY <1>3 DEF Unlock, Forget, NoFault, Labels, Codes, Successes, Refusals, FlowType
<1>4. CASE Exit(p)
  BY <1>4 DEF Exit, Forget, NoFault, Labels, Codes, Successes, Refusals, FlowType
<1>5. CASE DeployLoad(p)
  BY <1>5 DEF DeployLoad, Labels, Codes, Successes, Refusals
<1>6. CASE Compare(p)
  BY <1>6 DEF Compare, Labels, Codes, Successes, Refusals
<1>7. CASE Preflight(p)
  BY <1>7 DEF Preflight, Labels, Codes, Successes, Refusals
<1>8. CASE JournalDeploying(p)
  <2>1. NodesOf[topo[p]] \in SUBSET Namespaces
    BY TopologyAssumption DEF FrameType
  <2> QED BY <1>8, <2>1 DEF JournalDeploying, Labels
<1>9. CASE EndStage(p)
  <2>1. /\ NodesOf[topo[p]] \in SUBSET Namespaces /\ BridgesOf[topo[p]] \in SUBSET Namespaces
        /\ LinksOf[topo[p]] \in SUBSET Links
    BY TopologyAssumption DEF FrameType
  <2> QED BY <1>9, <2>1 DEF EndStage, Labels
<1>10. CASE CreateNamespace(p)
  BY <1>10 DEF CreateNamespace, Labels, Codes, Successes, Refusals
<1>11. CASE CreateBridge(p)
  BY <1>11 DEF CreateBridge, Labels, Codes, Successes, Refusals
<1>12. CASE CreateVeth(p)
  BY <1>12 DEF CreateVeth, Labels, Codes, Successes, Refusals
<1>13. CASE ConfigureNode(p)
  BY <1>13 DEF ConfigureNode, Labels, Codes, Successes, Refusals
<1>14. CASE StartRouting(p)
  BY <1>14 DEF StartRouting, Labels, Codes, Successes, Refusals
<1>15. CASE Verify(p)
  BY <1>15 DEF Verify, Labels, Codes, Successes, Refusals
<1>16. CASE JournalDeployed(p)
  BY <1>16 DEF JournalDeployed, Labels, Codes, Successes, Refusals
<1>17. CASE Reconcile(p)
  BY <1>17 DEF Reconcile, Labels, Codes, Successes, Refusals
<1>18. CASE RollbackRouting(p)
  <2>1. made[p] \in SUBSET Namespaces
    BY DEF FrameType
  <2> QED BY <1>18, <2>1 DEF RollbackRouting, Labels
<1>19. CASE RollbackNamespace(p)
  BY <1>19 DEF RollbackNamespace, Labels, Codes, Successes, Refusals
<1>20. CASE RollbackInventory(p)
  BY <1>20 DEF RollbackInventory, Labels, Codes, Successes, Refusals
<1>21. CASE RollbackState(p)
  BY <1>21 DEF RollbackState, Labels, Codes, Successes, Refusals
<1>22. CASE RollbackRetry(p)
  BY <1>22 DEF RollbackRetry, Labels, Codes, Successes, Refusals
<1>23. CASE DestroyLoad(p)
  BY <1>23 DEF DestroyLoad, Labels, Codes, Successes, Refusals
<1>24. CASE DestroyAbsent(p)
  BY <1>24 DEF DestroyAbsent, Labels, Codes, Successes, Refusals
<1>25. CASE StopLeftovers(p)
  BY <1>25 DEF StopLeftovers, Labels, Codes, Successes, Refusals
<1>26. CASE JournalDestroying(p)
  BY <1>26 DEF JournalDestroying, Labels, Codes, Successes, Refusals
<1>27. CASE DestroyRouting(p)
  <2>1. NodesOf[topo[p]] \in SUBSET Namespaces
    BY TopologyAssumption DEF FrameType
  <2> QED BY <1>27, <2>1 DEF DestroyRouting, Labels
<1>28. CASE DestroyNamespace(p)
  <2>1. pc[p] \in Labels
    BY DEF FlowType
  <2> QED BY <1>28, <2>1 DEF DestroyNamespace
<1>29. CASE DestroyInventory(p)
  BY <1>29 DEF DestroyInventory, Labels, Codes, Successes, Refusals
<1>30. CASE DeleteState(p)
  BY <1>30 DEF DeleteState, Labels, Codes, Successes, Refusals
<1>31. CASE DeleteRetry(p)
  BY <1>31 DEF DeleteRetry, Labels, Codes, Successes, Refusals
<1> QED BY <1>1, <1>2, <1>3, <1>4, <1>5, <1>6, <1>7, <1>8, <1>9, <1>10, <1>11, <1>12, <1>13,
           <1>14, <1>15, <1>16, <1>17, <1>18, <1>19, <1>20, <1>21, <1>22, <1>23, <1>24,
           <1>25, <1>26, <1>27, <1>28, <1>29, <1>30, <1>31 DEF Advance

(* No step takes cmd, plan, topo, made and bad out of theirs.               *)
LEMMA FrameStep ==
  ASSUME TypeInv, NEW p \in Procs, Advance(p)
  PROVE  FrameType' /\ lock' \in Procs \cup {Nobody} /\ faulted' \subseteq Procs
<1> USE RollBackType, SomeTopoType, TopologyAssumption
    DEF TypeInv, TypeOK, ControlType, StoreType, FrameType, frameVars, Fault, NoFault, SetBad
<1>1. CASE Acquire(p)
  BY <1>1 DEF Acquire
<1>2. CASE LockRefused(p)
  BY <1>2 DEF LockRefused
<1>3. CASE Unlock(p)
  BY <1>3 DEF Unlock
<1>4. CASE Exit(p)
  BY <1>4 DEF Exit, Forget
<1>5. CASE DeployLoad(p)
  BY <1>5 DEF DeployLoad
<1>6. CASE Compare(p)
  BY <1>6 DEF Compare
<1>7. CASE Preflight(p)
  BY <1>7 DEF Preflight
<1>8. CASE JournalDeploying(p)
  BY <1>8 DEF JournalDeploying
<1>9. CASE EndStage(p)
  BY <1>9 DEF EndStage
<1>10. CASE CreateNamespace(p)
  <2>1. todo[p] \subseteq Namespaces
    BY <1>10 DEF CreateNamespace, At, LoopItems
  <2> QED BY <1>10, <2>1 DEF CreateNamespace
<1>11. CASE CreateBridge(p)
  BY <1>11 DEF CreateBridge
<1>12. CASE CreateVeth(p)
  BY <1>12 DEF CreateVeth
<1>13. CASE ConfigureNode(p)
  BY <1>13 DEF ConfigureNode
<1>14. CASE StartRouting(p)
  BY <1>14 DEF StartRouting
<1>15. CASE Verify(p)
  BY <1>15 DEF Verify
<1>16. CASE JournalDeployed(p)
  BY <1>16 DEF JournalDeployed
<1>17. CASE Reconcile(p)
  BY <1>17 DEF Reconcile
<1>18. CASE RollbackRouting(p)
  BY <1>18 DEF RollbackRouting
<1>19. CASE RollbackNamespace(p)
  BY <1>19 DEF RollbackNamespace
<1>20. CASE RollbackInventory(p)
  BY <1>20 DEF RollbackInventory
<1>21. CASE RollbackState(p)
  BY <1>21 DEF RollbackState
<1>22. CASE RollbackRetry(p)
  BY <1>22 DEF RollbackRetry
<1>23. CASE DestroyLoad(p)
  BY <1>23 DEF DestroyLoad, Stable, Snapshots
<1>24. CASE DestroyAbsent(p)
  BY <1>24 DEF DestroyAbsent
<1>25. CASE StopLeftovers(p)
  BY <1>25 DEF StopLeftovers
<1>26. CASE JournalDestroying(p)
  BY <1>26 DEF JournalDestroying
<1>27. CASE DestroyRouting(p)
  BY <1>27 DEF DestroyRouting
<1>28. CASE DestroyNamespace(p)
  BY <1>28 DEF DestroyNamespace
<1>29. CASE DestroyInventory(p)
  BY <1>29 DEF DestroyInventory
<1>30. CASE DeleteState(p)
  BY <1>30 DEF DeleteState
<1>31. CASE DeleteRetry(p)
  BY <1>31 DEF DeleteRetry
<1> QED BY <1>1, <1>2, <1>3, <1>4, <1>5, <1>6, <1>7, <1>8, <1>9, <1>10, <1>11, <1>12, <1>13,
           <1>14, <1>15, <1>16, <1>17, <1>18, <1>19, <1>20, <1>21, <1>22, <1>23, <1>24,
           <1>25, <1>26, <1>27, <1>28, <1>29, <1>30, <1>31 DEF Advance

(* Save and delete leave a snapshot or nothing, now and after a power loss. *)
LEMMA StoreStep ==
  ASSUME TypeOK, NEW p \in Procs, Advance(p)
  PROVE  StoreType'
<1> USE DEF TypeOK, ControlType, FrameType, StoreType, storeVars, Untouched, Commit, Linger, InDoubt
<1>1. ASSUME NEW s \in Statuses, NEW o, Save(Entry(topo[p], s), o) PROVE StoreType'
  BY <1>1 DEF Save, Entry, Snapshots
<1>2. ASSUME NEW o, Delete(o) PROVE StoreType'
  BY <1>2 DEF Delete
<1>3. CASE UNCHANGED storeVars
  BY <1>3
<1>4. CASE JournalDeploying(p)
  BY <1>4, <1>1, <1>2 DEF JournalDeploying, Statuses
<1>5. CASE JournalDeployed(p)
  BY <1>5, <1>1, <1>2 DEF JournalDeployed, Statuses
<1>6. CASE RollbackState(p)
  BY <1>6, <1>1, <1>2 DEF RollbackState, Statuses
<1>7. CASE RollbackRetry(p)
  BY <1>7, <1>1, <1>2 DEF RollbackRetry, Statuses
<1>8. CASE JournalDestroying(p)
  BY <1>8, <1>1, <1>2 DEF JournalDestroying, Statuses
<1>9. CASE DeleteState(p)
  BY <1>9, <1>1, <1>2 DEF DeleteState, Statuses
<1>10. CASE DeleteRetry(p)
  BY <1>10, <1>1, <1>2 DEF DeleteRetry, Statuses
<1> QED BY <1>3, <1>4, <1>5, <1>6, <1>7, <1>8, <1>9, <1>10, StoreActions

(* Namespace removal keeps the kernel's variables well typed.               *)
LEMMA RemovalType ==
  ASSUME HostType, NEW n \in Namespaces, NEW o, RemoveNamespace(n, o)
  PROVE  phase' \in [Namespaces -> Phases] /\ veth' \in [Links -> SUBSET (Namespaces \cup {Root})]
  BY DEF HostType, RemoveNamespace, DropNamespace, Phases

(* No step takes phase, veth and frr out of their types.                    *)
LEMMA HostStep ==
  ASSUME TypeInv, NEW p \in Procs, Advance(p)
  PROVE  HostType'
<1> USE TopologyAssumption
    DEF TypeInv, TypeOK, ControlType, FrameType, HostType, hostVars, LoopItems, At
<1>1. ASSUME NEW o, StopRouting(topo[p], o) PROVE frr' \in Runtimes \cup {NoRuntime}
  BY <1>1 DEF StopRouting, Entry, Runtimes
<1>2. CASE UNCHANGED hostVars
  BY <1>2
<1>3. CASE CreateNamespace(p)
  BY <1>3, <1>1, RemovalType DEF CreateNamespace, Phases, Entry, Runtimes, Residues
<1>4. CASE CreateBridge(p)
  BY <1>4, <1>1, RemovalType DEF CreateBridge, Phases, Entry, Runtimes, Residues
<1>5. CASE CreateVeth(p)
  BY <1>5, <1>1, RemovalType DEF CreateVeth, Phases, Entry, Runtimes, Residues
<1>6. CASE ConfigureNode(p)
  BY <1>6, <1>1, RemovalType DEF ConfigureNode, Phases, Entry, Runtimes, Residues
<1>7. CASE StartRouting(p)
  BY <1>7, <1>1, RemovalType DEF StartRouting, Phases, Entry, Runtimes, Residues
<1>8. CASE RollbackRouting(p)
  BY <1>8, <1>1, RemovalType DEF RollbackRouting, Phases, Entry, Runtimes, Residues
<1>9. CASE RollbackNamespace(p)
  BY <1>9, <1>1, RemovalType DEF RollbackNamespace, Phases, Entry, Runtimes, Residues
<1>10. CASE StopLeftovers(p)
  BY <1>10, <1>1, RemovalType DEF StopLeftovers, Phases, Entry, Runtimes, Residues
<1>11. CASE DestroyRouting(p)
  BY <1>11, <1>1, RemovalType DEF DestroyRouting, Phases, Entry, Runtimes, Residues
<1>12. CASE DestroyNamespace(p)
  BY <1>12, <1>1, RemovalType DEF DestroyNamespace, Phases, Entry, Runtimes, Residues
<1> QED BY <1>2, <1>3, <1>4, <1>5, <1>6, <1>7, <1>8, <1>9, <1>10, <1>11, <1>12, HostActions

(* The history variables are kept by the bookkeeping of every action.       *)
LEMMA HistoryStep ==
  ASSUME TypeOK, NEW p \in Procs, History(p)
  PROVE  HistoryType'
  BY DEF History, TypeOK, HistoryType

(* Counting an outside event.                                               *)
LEMMA SpendType ==
  ASSUME HistoryType, NEW kind \in Mishaps, Spend(kind)
  PROVE  mishaps' \in [Mishaps -> Nat]
  BY DEF HistoryType, Spend

(* Every step of an invocation does its bookkeeping.                        *)
LEMMA HasHistory ==
  ASSUME NEW p \in Procs, Advance(p) \/ Start(p) \/ Crash(p)
  PROVE  History(p)
  BY DEF Advance, Start, Crash, Acquire, LockRefused, Unlock, Exit, DeployLoad, Compare,
     Preflight, JournalDeploying, EndStage, CreateNamespace, CreateBridge, CreateVeth,
     ConfigureNode, StartRouting, Verify, JournalDeployed, Reconcile, RollbackRouting,
     RollbackNamespace, RollbackInventory, RollbackState, RollbackRetry, DestroyLoad,
     DestroyAbsent, StopLeftovers, JournalDestroying, DestroyRouting, DestroyNamespace,
     DestroyInventory, DeleteState, DeleteRetry

(* Namespace loops hold namespaces and the link loop holds links.           *)
LEMMA LoopStep ==
  ASSUME TypeInv, TypeOK', NEW p \in Procs, Advance(p)
  PROVE  LoopItems(p)'
<1> USE TopologyAssumption
    DEF TypeInv, TypeOK, ControlType, FrameType, FlowType, frameVars, LoopItems,
        Goto, GotoWith, Done, Finish, Fails, SetBad, RollBack
<1>1. CASE Acquire(p)
  BY <1>1 DEF Acquire, Forget, Destroyed
<1>2. CASE LockRefused(p)
  BY <1>2 DEF LockRefused, Forget, Destroyed
<1>3. CASE Unlock(p)
  BY <1>3 DEF Unlock, Forget, Destroyed
<1>4. CASE Exit(p)
  BY <1>4 DEF Exit, Forget, Destroyed
<1>5. CASE DeployLoad(p)
  BY <1>5 DEF DeployLoad, Forget, Destroyed
<1>6. CASE Compare(p)
  BY <1>6 DEF Compare, Forget, Destroyed
<1>7. CASE Preflight(p)
  BY <1>7 DEF Preflight, Forget, Destroyed
<1>8. CASE JournalDeploying(p)
  BY <1>8 DEF JournalDeploying, Forget, Destroyed
<1>9. CASE EndStage(p)
  BY <1>9 DEF EndStage, Forget, Destroyed
<1>10. CASE CreateNamespace(p)
  BY <1>10 DEF CreateNamespace, Forget, Destroyed
<1>11. CASE CreateBridge(p)
  BY <1>11 DEF CreateBridge, Forget, Destroyed
<1>12. CASE CreateVeth(p)
  BY <1>12 DEF CreateVeth, Forget, Destroyed
<1>13. CASE ConfigureNode(p)
  BY <1>13 DEF ConfigureNode, Forget, Destroyed
<1>14. CASE StartRouting(p)
  BY <1>14 DEF StartRouting, Forget, Destroyed
<1>15. CASE Verify(p)
  BY <1>15 DEF Verify, Forget, Destroyed
<1>16. CASE JournalDeployed(p)
  BY <1>16 DEF JournalDeployed, Forget, Destroyed
<1>17. CASE Reconcile(p)
  BY <1>17 DEF Reconcile, Forget, Destroyed
<1>18. CASE RollbackRouting(p)
  BY <1>18 DEF RollbackRouting, Forget, Destroyed
<1>19. CASE RollbackNamespace(p)
  BY <1>19 DEF RollbackNamespace, Forget, Destroyed
<1>20. CASE RollbackInventory(p)
  BY <1>20 DEF RollbackInventory, Forget, Destroyed
<1>21. CASE RollbackState(p)
  BY <1>21 DEF RollbackState, Forget, Destroyed
<1>22. CASE RollbackRetry(p)
  BY <1>22 DEF RollbackRetry, Forget, Destroyed
<1>23. CASE DestroyLoad(p)
  BY <1>23 DEF DestroyLoad, Forget, Destroyed
<1>24. CASE DestroyAbsent(p)
  BY <1>24 DEF DestroyAbsent, Forget, Destroyed
<1>25. CASE StopLeftovers(p)
  BY <1>25 DEF StopLeftovers, Forget, Destroyed
<1>26. CASE JournalDestroying(p)
  BY <1>26 DEF JournalDestroying, Forget, Destroyed
<1>27. CASE DestroyRouting(p)
  BY <1>27 DEF DestroyRouting, Forget, Destroyed
<1>28. CASE DestroyNamespace(p)
  BY <1>28 DEF DestroyNamespace, Forget, Destroyed
<1>29. CASE DestroyInventory(p)
  BY <1>29 DEF DestroyInventory, Forget, Destroyed
<1>30. CASE DeleteState(p)
  BY <1>30 DEF DeleteState, Forget, Destroyed
<1>31. CASE DeleteRetry(p)
  BY <1>31 DEF DeleteRetry, Forget, Destroyed
<1> QED BY <1>1, <1>2, <1>3, <1>4, <1>5, <1>6, <1>7, <1>8, <1>9, <1>10, <1>11, <1>12, <1>13,
           <1>14, <1>15, <1>16, <1>17, <1>18, <1>19, <1>20, <1>21, <1>22, <1>23, <1>24,
           <1>25, <1>26, <1>27, <1>28, <1>29, <1>30, <1>31 DEF Advance

(* TypeInv is inductive.                                                    *)
LEMMA TypeStep == TypeInv /\ [Next]_vars => TypeInv'
<1> SUFFICES ASSUME TypeInv, [Next]_vars PROVE TypeInv'
  OBVIOUS
<1>1. ASSUME NEW p \in Procs, Advance(p) \/ Start(p) \/ Crash(p), TypeOK', LoopItems(p)'
      PROVE  TypeInv'
  <2> SUFFICES ASSUME NEW q \in Procs, q # p PROVE LoopItems(q)'
    BY <1>1 DEF TypeInv
  <2>1. pc'[q] = pc[q] /\ todo'[q] = todo[q] /\ topo'[q] = topo[q]
    BY <1>1, Locality DEF TypeInv
  <2> QED BY <2>1 DEF TypeInv, LoopItems
<1>2. ASSUME NEW p \in Procs, Advance(p) PROVE TypeInv'
  <2>1. TypeOK'
    BY <1>2, FlowStep, FrameStep, StoreStep, HostStep, HistoryStep, HasHistory
       DEF TypeInv, TypeOK, ControlType
  <2> QED BY <1>1, <1>2, <2>1, LoopStep
<1>3. ASSUME NEW p \in Procs, Start(p) PROVE TypeInv'
  <2>1. ControlType'
    BY <1>3, GotoType DEF Start, Labels, TypeInv, TypeOK, ControlType, FrameType
  <2>2. LoopItems(p)'
    BY <1>3 DEF Start, Goto, GotoWith, LoopItems, TypeInv, TypeOK, ControlType, FlowType
  <2>3. StoreType' /\ HostType'
    BY <1>3 DEF Start, TypeInv, TypeOK, StoreType, HostType, storeVars, hostVars
  <2> QED BY <1>1, <1>3, <2>1, <2>2, <2>3, HistoryStep, HasHistory DEF TypeInv, TypeOK
<1>4. ASSUME NEW p \in Procs, Crash(p) PROVE TypeInv'
  <2>1. ControlType'
    BY <1>4, SomeTopoType
       DEF Crash, Forget, Labels, Codes, TypeInv, TypeOK, ControlType, FlowType, FrameType
  <2>2. LoopItems(p)'
    BY <1>4 DEF Crash, Forget, LoopItems, TypeInv, TypeOK, ControlType, FlowType
  <2>3. StoreType' /\ HostType'
    BY <1>4 DEF Crash, TypeInv, TypeOK, StoreType, HostType, storeVars, hostVars
  <2> QED BY <1>1, <1>4, <2>1, <2>2, <2>3, HistoryStep, HasHistory DEF TypeInv, TypeOK
<1>5. CASE Meddle
  <2> USE DEF TypeInv, TypeOK
  <2>1. StoreType' /\ ControlType' /\ \A p \in Procs : LoopItems(p)'
    BY <1>5 DEF Meddle, Running, StoreType, ControlType, FlowType, FrameType, LoopItems,
                storeVars, frameVars, controlVars
  <2>2. HostType'
    BY <1>5 DEF Meddle, HostType, DropNamespace, Phases, Runtimes
  <2>3. HistoryType'
    BY <1>5, SpendType DEF Meddle, Mishaps, HistoryType
  <2> QED BY <2>1, <2>2, <2>3
<1>6. CASE PowerLoss
  <2> USE DEF TypeInv, TypeOK
  <2>1. StoreType'
    BY <1>6 DEF PowerLoss, LosePower, Commit, StoreType
  <2>2. HostType'
    BY <1>6 DEF PowerLoss, HostType, Phases, Runtimes, Entry
  <2>3. ControlType' /\ \A p \in Procs : LoopItems(p)'
    BY <1>6, SomeTopoType
       DEF PowerLoss, ControlType, FlowType, FrameType, Labels, Codes, LoopItems
  <2>4. HistoryType'
    BY <1>6, SpendType DEF PowerLoss, Mishaps, HistoryType
  <2> QED BY <2>1, <2>2, <2>3, <2>4
<1>7. CASE RemoveState
  <2> USE DEF TypeInv, TypeOK
  <2>1. StoreType'
    BY <1>7 DEF RemoveState, Commit, StoreType
  <2>2. HostType' /\ ControlType' /\ \A p \in Procs : LoopItems(p)'
    BY <1>7 DEF RemoveState, HostType, ControlType, FlowType, FrameType, LoopItems,
                hostVars, frameVars, controlVars
  <2>3. HistoryType'
    BY <1>7, SpendType DEF RemoveState, Mishaps, HistoryType
  <2> QED BY <2>1, <2>2, <2>3
<1>8. CASE UNCHANGED vars
  BY <1>8 DEF TypeInv, TypeOK, StoreType, HostType, ControlType, FlowType, FrameType,
     HistoryType,
              LoopItems, vars, storeVars, hostVars, frameVars, controlVars, historyVars
<1> QED BY <1>2, <1>3, <1>4, <1>5, <1>6, <1>7, <1>8 DEF Next

(* TypeInv holds in every reachable state.                                  *)
LEMMA TypeInvariant == Spec => []TypeInv
<1>1. ASSUME Init PROVE TypeInv
  <2> USE <1>1 DEF Init
  <2>1. StoreType /\ HostType
    BY DEF StoreType, HostType, Phases
  <2>2. ControlType /\ \A p \in Procs : LoopItems(p)
    BY SomeTopoType DEF ControlType, FlowType, FrameType, LoopItems, Labels, Codes
  <2>3. HistoryType
    BY DEF HistoryType
  <2> QED BY <2>1, <2>2, <2>3 DEF TypeInv, TypeOK
<1> QED BY <1>1, TypeStep, PTL DEF Spec

(* Every variable keeps its type, and the snapshot on disk is always among  *)
(* those a power loss may leave (lifecycle.py:126-1084, state.py:306-393).  *)
THEOREM TypeCorrect == Spec => []TypeOK
<1>1. TypeInv => TypeOK
  BY DEF TypeInv
<1> QED BY <1>1, TypeInvariant, PTL

-----------------------------------------------------------------------------
(* The lock.                                                                *)

(* A step hands the lock from nobody to its invocation or back.             *)
LEMMA LockStep ==
  ASSUME TypeInv, NEW p \in Procs, Advance(p), Critical(p) <=> lock = p
  PROVE  /\ (Critical(p) <=> lock = p)'
         /\ lock' # lock => {lock, lock'} = {p, Nobody}
<1> USE ValueAssumption
    DEF TypeInv, TypeOK, ControlType, FlowType, Critical, frameVars, At,
        Goto, GotoWith, Done, Finish, Fails, SetBad, RollBack
<1>1. CASE Acquire(p)
  BY <1>1 DEF Acquire, CanLock, Forget, Destroyed
<1>2. CASE LockRefused(p)
  BY <1>2 DEF LockRefused, CanLock, Forget, Destroyed
<1>3. CASE Unlock(p)
  BY <1>3 DEF Unlock, CanLock, Forget, Destroyed
<1>4. CASE Exit(p)
  BY <1>4 DEF Exit, CanLock, Forget, Destroyed
<1>5. CASE DeployLoad(p)
  BY <1>5 DEF DeployLoad, CanLock, Forget, Destroyed
<1>6. CASE Compare(p)
  BY <1>6 DEF Compare, CanLock, Forget, Destroyed
<1>7. CASE Preflight(p)
  BY <1>7 DEF Preflight, CanLock, Forget, Destroyed
<1>8. CASE JournalDeploying(p)
  BY <1>8 DEF JournalDeploying, CanLock, Forget, Destroyed
<1>9. CASE EndStage(p)
  BY <1>9 DEF EndStage, CanLock, Forget, Destroyed
<1>10. CASE CreateNamespace(p)
  BY <1>10 DEF CreateNamespace, CanLock, Forget, Destroyed
<1>11. CASE CreateBridge(p)
  BY <1>11 DEF CreateBridge, CanLock, Forget, Destroyed
<1>12. CASE CreateVeth(p)
  BY <1>12 DEF CreateVeth, CanLock, Forget, Destroyed
<1>13. CASE ConfigureNode(p)
  BY <1>13 DEF ConfigureNode, CanLock, Forget, Destroyed
<1>14. CASE StartRouting(p)
  BY <1>14 DEF StartRouting, CanLock, Forget, Destroyed
<1>15. CASE Verify(p)
  BY <1>15 DEF Verify, CanLock, Forget, Destroyed
<1>16. CASE JournalDeployed(p)
  BY <1>16 DEF JournalDeployed, CanLock, Forget, Destroyed
<1>17. CASE Reconcile(p)
  BY <1>17 DEF Reconcile, CanLock, Forget, Destroyed
<1>18. CASE RollbackRouting(p)
  BY <1>18 DEF RollbackRouting, CanLock, Forget, Destroyed
<1>19. CASE RollbackNamespace(p)
  BY <1>19 DEF RollbackNamespace, CanLock, Forget, Destroyed
<1>20. CASE RollbackInventory(p)
  BY <1>20 DEF RollbackInventory, CanLock, Forget, Destroyed
<1>21. CASE RollbackState(p)
  BY <1>21 DEF RollbackState, CanLock, Forget, Destroyed
<1>22. CASE RollbackRetry(p)
  BY <1>22 DEF RollbackRetry, CanLock, Forget, Destroyed
<1>23. CASE DestroyLoad(p)
  BY <1>23 DEF DestroyLoad, CanLock, Forget, Destroyed
<1>24. CASE DestroyAbsent(p)
  BY <1>24 DEF DestroyAbsent, CanLock, Forget, Destroyed
<1>25. CASE StopLeftovers(p)
  BY <1>25 DEF StopLeftovers, CanLock, Forget, Destroyed
<1>26. CASE JournalDestroying(p)
  BY <1>26 DEF JournalDestroying, CanLock, Forget, Destroyed
<1>27. CASE DestroyRouting(p)
  BY <1>27 DEF DestroyRouting, CanLock, Forget, Destroyed
<1>28. CASE DestroyNamespace(p)
  BY <1>28 DEF DestroyNamespace, CanLock, Forget, Destroyed
<1>29. CASE DestroyInventory(p)
  BY <1>29 DEF DestroyInventory, CanLock, Forget, Destroyed
<1>30. CASE DeleteState(p)
  BY <1>30 DEF DeleteState, CanLock, Forget, Destroyed
<1>31. CASE DeleteRetry(p)
  BY <1>31 DEF DeleteRetry, CanLock, Forget, Destroyed
<1> QED BY <1>1, <1>2, <1>3, <1>4, <1>5, <1>6, <1>7, <1>8, <1>9, <1>10, <1>11, <1>12, <1>13,
           <1>14, <1>15, <1>16, <1>17, <1>18, <1>19, <1>20, <1>21, <1>22, <1>23, <1>24,
           <1>25, <1>26, <1>27, <1>28, <1>29, <1>30, <1>31 DEF Advance

(* Mutual exclusion is inductive, given the types.                          *)
LEMMA CriticalStep == TypeInv /\ MutualExclusion /\ [Next]_vars => MutualExclusion'
<1> SUFFICES ASSUME TypeInv, MutualExclusion, [Next]_vars PROVE MutualExclusion'
  OBVIOUS
<1> USE ValueAssumption DEF MutualExclusion
<1>1. ASSUME NEW p \in Procs, Advance(p) \/ Start(p) \/ Crash(p),
             (Critical(p) <=> lock = p)', lock' # lock => {lock, lock'} = {p, Nobody}
      PROVE  MutualExclusion'
  <2> SUFFICES ASSUME NEW q \in Procs, q # p PROVE Critical(q)' <=> lock' = q
    BY <1>1
  <2>1. pc'[q] = pc[q]
    BY <1>1, Locality DEF TypeInv
  <2>2. lock' = q <=> lock = q
    BY <1>1
  <2> QED BY <2>1, <2>2 DEF Critical
<1>2. ASSUME NEW p \in Procs, Advance(p) PROVE MutualExclusion'
  BY <1>1, <1>2, LockStep
<1>3. ASSUME NEW p \in Procs, Start(p) PROVE MutualExclusion'
  BY <1>1, <1>3
     DEF Start, Idle, Goto, GotoWith, Critical, TypeInv, TypeOK, ControlType, FlowType
<1>4. ASSUME NEW p \in Procs, Crash(p) PROVE MutualExclusion'
  BY <1>1, <1>4
     DEF Crash, Idle, Forget, Critical, TypeInv, TypeOK, ControlType, FlowType
<1>5. CASE Meddle \/ UNCHANGED vars
  BY <1>5 DEF Meddle, Critical, controlVars, vars
<1>6. CASE PowerLoss
  BY <1>6 DEF PowerLoss, Critical
<1>7. CASE RemoveState
  BY <1>7 DEF RemoveState, Critical, controlVars
<1> QED BY <1>2, <1>3, <1>4, <1>5, <1>6, <1>7 DEF Next

(* Types and mutual exclusion together, for the proof that follows.         *)
LEMMA LockInvariant == Spec => [](TypeInv /\ MutualExclusion)
<1>1. Init => MutualExclusion
  BY ValueAssumption DEF Init, MutualExclusion, Critical
<1> QED BY <1>1, CriticalStep, TypeInvariant, PTL DEF Spec

(* However many invocations run, crash and are killed, at most one is in    *)
(* the locked part of a command (lifecycle.py:126-145).                     *)
THEOREM LockExcludes == Spec => []MutualExclusion
  BY LockInvariant, PTL

-----------------------------------------------------------------------------
(* The journal accounts for what is live.                                   *)

LEMMA EntryFields ==
  ASSUME NEW t, NEW s
  PROVE  Entry(t, s).topo = t /\ Entry(t, s).status = s
  BY DEF Entry

(* Every entry the service writes is a snapshot.                            *)
LEMMA EntryIsSnapshot ==
  ASSUME NEW t \in Topos, NEW s \in Statuses
  PROVE  Entry(t, s) \in Snapshots /\ Entry(t, s) # NoSnapshot
  BY ValueAssumption DEF Entry, Snapshots

(* Ours are namespaces that were ours, or were created by this step.        *)
LEMMA OursStep ==
  ASSUME NEW p \in Procs, History(p)
  PROVE  /\ ours' \subseteq ours \cup {n \in Namespaces : phase[n] = "absent" /\ phase'[n] # "absent"}
         /\ \A n \in ours' : phase'[n] # "absent"
         /\ mishaps' = mishaps
  BY DEF History

(* A step that creates nothing keeps what accounts for everything.          *)
LEMMA CoversLess ==
  ASSUME NEW d, Covers(d), ours' \subseteq ours,
         \A l \in Links : veth'[l] # {} => veth[l] # {},
         frr' # NoRuntime => frr # NoRuntime /\ frr'.topo = frr.topo
  PROVE  Covers(d)'
  BY DEF Covers

(* When nothing is live any entry accounts for it.                          *)
LEMMA CoversNothing ==
  ASSUME NEW d, NothingLive
  PROVE  Covers(d)
  BY DEF Covers, NothingLive

(* With no entry, covering means that nothing is live.                      *)
LEMMA EmptyCovers ==
  ASSUME Covers(NoSnapshot)
  PROVE  NothingLive
  BY DEF Covers, NothingLive

(* _inventory_is_absent sees everything the entry accounts for.             *)
LEMMA AbsentMeansNothing ==
  ASSUME TypeInv, Kernel, NEW t \in Topos, NEW s \in Statuses, Covers(Entry(t, s)),
         InventoryIsAbsent(t), frr = NoRuntime
  PROVE  NothingLive
<1>1. ours = {}
  BY EntryFields DEF Kernel, Covers, InventoryIsAbsent
<1>2. ASSUME NEW l \in Links, veth[l] # {} PROVE FALSE
  <2>1. l \in LinksOf[t]
    BY <1>2, EntryFields DEF Covers
  <2>2. PICK n \in Ends[l] : n \in veth[l]
    BY <1>2, <2>1 DEF Kernel, InventoryIsAbsent
  <2>3. n \in NodesOf[t] /\ n \in Namespaces
    BY <2>1, TopologyAssumption
  <2> QED BY <2>2, <2>3 DEF Kernel, InventoryIsAbsent
<1> QED BY <1>1, <1>2 DEF NothingLive

(* A routing runtime whose stop succeeds is gone.                           *)
LEMMA StoppedMeansGone ==
  ASSUME Kernel, NEW t \in Topos, NEW s \in Statuses, Covers(Entry(t, s)), StopRouting(t, "ok")
  PROVE  frr' = NoRuntime
  BY EntryFields DEF Kernel, Covers, StopRouting

(* A live namespace or pair is visible to the inventory: kept by every step.*)
LEMMA KernelStep ==
  ASSUME TypeInv, TypeInv', Kernel, NEW p \in Procs, Advance(p)
  PROVE  Kernel'
<1> USE TopologyAssumption, ValueAssumption
    DEF TypeInv, TypeOK, ControlType, FrameType, HostType, LoopItems, Kernel, At, hostVars
<1>1. \A n \in ours' : phase'[n] # "absent"
  BY OursStep, HasHistory
<1>2. ASSUME NEW o, StopRouting(topo[p], o) PROVE frr' # NoRuntime => frr'.topo \in Routed
  BY <1>2, EntryFields DEF StopRouting
<1>3. ASSUME NEW n \in Namespaces, NEW o, RemoveNamespace(n, o)
      PROVE  \A l \in Links : /\ veth'[l] \subseteq veth[l]
                             /\ \A m \in Namespaces : m \in veth'[l] => phase'[m] # "absent"
  BY <1>3 DEF RemoveNamespace, DropNamespace
<1>4. CASE UNCHANGED hostVars
  BY <1>1, <1>4
<1>5. CASE CreateNamespace(p)
  BY <1>5, <1>1, <1>2, <1>3, EntryFields DEF CreateNamespace, Residues
<1>6. CASE CreateBridge(p)
  BY <1>6, <1>1, <1>2, <1>3, EntryFields DEF CreateBridge, Residues
<1>7. CASE CreateVeth(p)
  BY <1>7, <1>1, <1>2, <1>3, EntryFields DEF CreateVeth, Residues
<1>8. CASE ConfigureNode(p)
  BY <1>8, <1>1, <1>2, <1>3, EntryFields DEF ConfigureNode, Residues
<1>9. CASE StartRouting(p)
  BY <1>9, <1>1, <1>2, <1>3, EntryFields DEF StartRouting, Residues
<1>10. CASE RollbackRouting(p)
  BY <1>10, <1>1, <1>2, <1>3, EntryFields DEF RollbackRouting, Residues
<1>11. CASE RollbackNamespace(p)
  BY <1>11, <1>1, <1>2, <1>3, EntryFields DEF RollbackNamespace, Residues
<1>12. CASE StopLeftovers(p)
  BY <1>12, <1>1, <1>2, <1>3, EntryFields DEF StopLeftovers, Residues
<1>13. CASE DestroyRouting(p)
  BY <1>13, <1>1, <1>2, <1>3, EntryFields DEF DestroyRouting, Residues
<1>14. CASE DestroyNamespace(p)
  BY <1>14, <1>1, <1>2, <1>3, EntryFields DEF DestroyNamespace, Residues
<1> QED BY <1>4, <1>5, <1>6, <1>7, <1>8, <1>9, <1>10, <1>11, <1>12, <1>13, <1>14,
           HostActions

(* At the labels that change the kernel only the invocation's own entry can survive.*)
LEMMA JournalStep ==
  ASSUME TypeInv, TypeInv', NEW p \in Procs, JournalAt(p), Advance(p)
  PROVE  JournalAt(p)'
<1> USE DEF TypeInv, TypeOK, ControlType, FrameType, FlowType, StoreType, frameVars, storeVars, At,
            Goto, GotoWith, Done, Finish, Fails, SetBad, RollBack, JournalAt, Building, Removing
<1> USE DEF Save, Delete, Untouched, Commit, Linger, InDoubt
<1>1. CASE Acquire(p)
  BY <1>1 DEF Acquire
<1>2. CASE LockRefused(p)
  BY <1>2 DEF LockRefused
<1>3. CASE Unlock(p)
  BY <1>3 DEF Unlock
<1>4. CASE Exit(p)
  BY <1>4 DEF Exit, Forget
<1>5. CASE DeployLoad(p)
  BY <1>5 DEF DeployLoad
<1>6. CASE Compare(p)
  BY <1>6 DEF Compare
<1>7. CASE Preflight(p)
  BY <1>7 DEF Preflight
<1>8. CASE JournalDeploying(p)
  BY <1>8 DEF JournalDeploying, Journalled
<1>9. CASE EndStage(p)
  BY <1>9 DEF EndStage
<1>10. CASE CreateNamespace(p)
  BY <1>10 DEF CreateNamespace
<1>11. CASE CreateBridge(p)
  BY <1>11 DEF CreateBridge
<1>12. CASE CreateVeth(p)
  BY <1>12 DEF CreateVeth
<1>13. CASE ConfigureNode(p)
  BY <1>13 DEF ConfigureNode
<1>14. CASE StartRouting(p)
  BY <1>14 DEF StartRouting
<1>15. CASE Verify(p)
  BY <1>15 DEF Verify
<1>16. CASE JournalDeployed(p)
  BY <1>16 DEF JournalDeployed
<1>17. CASE Reconcile(p)
  BY <1>17 DEF Reconcile, Kept
<1>18. CASE RollbackRouting(p)
  BY <1>18 DEF RollbackRouting
<1>19. CASE RollbackNamespace(p)
  BY <1>19 DEF RollbackNamespace
<1>20. CASE RollbackInventory(p)
  BY <1>20 DEF RollbackInventory
<1>21. CASE RollbackState(p)
  BY <1>21 DEF RollbackState
<1>22. CASE RollbackRetry(p)
  BY <1>22 DEF RollbackRetry
<1>23. CASE DestroyLoad(p)
  BY <1>23 DEF DestroyLoad, Stable, Interrupted, Transient, Snapshots, Statuses, Entry
<1>24. CASE DestroyAbsent(p)
  BY <1>24 DEF DestroyAbsent
<1>25. CASE StopLeftovers(p)
  BY <1>25 DEF StopLeftovers, Destroyed
<1>26. CASE JournalDestroying(p)
  BY <1>26 DEF JournalDestroying, Journalled
<1>27. CASE DestroyRouting(p)
  BY <1>27 DEF DestroyRouting
<1>28. CASE DestroyNamespace(p)
  BY <1>28 DEF DestroyNamespace
<1>29. CASE DestroyInventory(p)
  BY <1>29 DEF DestroyInventory
<1>30. CASE DeleteState(p)
  BY <1>30 DEF DeleteState, Destroyed
<1>31. CASE DeleteRetry(p)
  BY <1>31 DEF DeleteRetry, Destroyed
<1> QED BY <1>1, <1>2, <1>3, <1>4, <1>5, <1>6, <1>7, <1>8, <1>9, <1>10, <1>11, <1>12, <1>13,
           <1>14, <1>15, <1>16, <1>17, <1>18, <1>19, <1>20, <1>21, <1>22, <1>23, <1>24,
           <1>25, <1>26, <1>27, <1>28, <1>29, <1>30, <1>31 DEF Advance

(* What a fresh look found absent stays absent while the journal is erased. *)
LEMMA ClearedStep ==
  ASSUME TypeInv, TypeInv', NEW p \in Procs, Kernel, JournalAt(p), ClearedAt(p),
         \A d \in durable : Covers(d), Advance(p)
  PROVE  ClearedAt(p)'
<1> USE DEF TypeInv, TypeOK, ControlType, FrameType, FlowType, frameVars, hostVars, At,
            Goto, GotoWith, Done, Finish, Fails, SetBad, RollBack, ClearedAt
<1>1. NothingLive /\ UNCHANGED hostVars => NothingLive'
  BY OursStep, HasHistory DEF NothingLive
<1>2. CASE Acquire(p)
  BY <1>2, <1>1 DEF Acquire
<1>3. CASE LockRefused(p)
  BY <1>3, <1>1 DEF LockRefused
<1>4. CASE Unlock(p)
  BY <1>4, <1>1 DEF Unlock
<1>5. CASE Exit(p)
  BY <1>5 DEF Exit, Forget
<1>6. CASE DeployLoad(p)
  BY <1>6, <1>1 DEF DeployLoad
<1>7. CASE Compare(p)
  BY <1>7, <1>1 DEF Compare
<1>8. CASE Preflight(p)
  BY <1>8, <1>1 DEF Preflight
<1>9. CASE JournalDeploying(p)
  BY <1>9 DEF JournalDeploying, Journalled
<1>10. CASE EndStage(p)
  BY <1>10, <1>1 DEF EndStage
<1>11. CASE CreateNamespace(p)
  BY <1>11, <1>1 DEF CreateNamespace
<1>12. CASE CreateBridge(p)
  BY <1>12, <1>1 DEF CreateBridge
<1>13. CASE CreateVeth(p)
  BY <1>13, <1>1 DEF CreateVeth
<1>14. CASE ConfigureNode(p)
  BY <1>14, <1>1 DEF ConfigureNode
<1>15. CASE StartRouting(p)
  BY <1>15, <1>1 DEF StartRouting
<1>16. CASE Verify(p)
  BY <1>16, <1>1 DEF Verify
<1>17. CASE JournalDeployed(p)
  BY <1>17, <1>1 DEF JournalDeployed
<1>18. CASE Reconcile(p)
  BY <1>18, <1>1 DEF Reconcile
<1>19. CASE RollbackRouting(p)
  <2>1. durable = {Entry(topo[p], "deploying")}
    BY <1>19 DEF RollbackRouting, JournalAt, Building, Removing
  <2>2. StopRouting(topo[p], "ok") => frr' = NoRuntime
    BY <2>1, StoppedMeansGone DEF Statuses
  <2> QED BY <1>19, <2>2 DEF RollbackRouting
<1>20. CASE RollbackNamespace(p)
  BY <1>20, <1>1 DEF RollbackNamespace
<1>21. CASE RollbackInventory(p)
  <2>1. durable = {Entry(topo[p], "deploying")}
    BY <1>21 DEF RollbackInventory, JournalAt, Building, Removing
  <2>2. CleanedUp(p) /\ frr = NoRuntime => NothingLive
    BY <2>1, AbsentMeansNothing DEF CleanedUp, Statuses
  <2> QED BY <1>21, <1>1, <2>2 DEF RollbackInventory, CleanedUp
<1>22. CASE RollbackState(p)
  BY <1>22, <1>1 DEF RollbackState
<1>23. CASE RollbackRetry(p)
  BY <1>23, <1>1 DEF RollbackRetry
<1>24. CASE DestroyLoad(p)
  BY <1>24, <1>1 DEF DestroyLoad
<1>25. CASE DestroyAbsent(p)
  BY <1>25, <1>1 DEF DestroyAbsent
<1>26. CASE StopLeftovers(p)
  BY <1>26 DEF StopLeftovers, Destroyed
<1>27. CASE JournalDestroying(p)
  BY <1>27 DEF JournalDestroying, Journalled
<1>28. CASE DestroyRouting(p)
  <2>1. durable = {Entry(topo[p], "destroying")}
    BY <1>28 DEF DestroyRouting, JournalAt, Building, Removing
  <2>2. StopRouting(topo[p], "ok") => frr' = NoRuntime
    BY <2>1, StoppedMeansGone DEF Statuses
  <2> QED BY <1>28, <2>2 DEF DestroyRouting
<1>29. CASE DestroyNamespace(p)
  BY <1>29, <1>1 DEF DestroyNamespace
<1>30. CASE DestroyInventory(p)
  <2>1. durable = {Entry(topo[p], "destroying")}
    BY <1>30 DEF DestroyInventory, JournalAt, Building, Removing
  <2>2. CleanedUp(p) /\ frr = NoRuntime => NothingLive
    BY <2>1, AbsentMeansNothing DEF CleanedUp, Statuses
  <2> QED BY <1>30, <1>1, <2>2 DEF DestroyInventory, CleanedUp
<1>31. CASE DeleteState(p)
  BY <1>31, <1>1 DEF DeleteState, Destroyed
<1>32. CASE DeleteRetry(p)
  BY <1>32, <1>1 DEF DeleteRetry, Destroyed
<1> QED BY <1>2, <1>3, <1>4, <1>5, <1>6, <1>7, <1>8, <1>9, <1>10, <1>11, <1>12, <1>13,
           <1>14, <1>15, <1>16, <1>17, <1>18, <1>19, <1>20, <1>21, <1>22, <1>23, <1>24,
           <1>25, <1>26, <1>27, <1>28, <1>29, <1>30, <1>31, <1>32 DEF Advance

(* No step leaves something live that a surviving entry does not name.      *)
LEMMA CoversStep ==
  ASSUME TypeInv, TypeInv', NEW p \in Procs, Kernel, JournalAt(p), ClearedAt(p),
         \A d \in durable : Covers(d), Advance(p)
  PROVE  \A d \in durable' : Covers(d)'
<1> USE DEF TypeInv, TypeOK, ControlType, FrameType, StoreType, HostType, storeVars, hostVars, At
<1> DEFINE t == topo[p]
           Shrinks == /\ ours' \subseteq ours
                      /\ \A l \in Links : veth'[l] # {} => veth[l] # {}
                      /\ frr' # NoRuntime => frr # NoRuntime /\ frr'.topo = frr.topo
<1>1. History(p)
  BY HasHistory
<1>2. ASSUME Shrinks, UNCHANGED storeVars PROVE \A d \in durable' : Covers(d)'
  BY <1>2, CoversLess
<1>3. ASSUME UNCHANGED hostVars PROVE Shrinks
  BY <1>1, <1>3, OursStep
(* The journal moves on under the same topology.                            *)
<1>4. ASSUME NEW s \in Statuses, disk = Entry(t, s), NEW u \in Statuses,
             durable' \subseteq durable \cup {Entry(t, u)}, UNCHANGED hostVars
      PROVE  \A d \in durable' : Covers(d)'
  <2>1. Covers(Entry(t, u))
    <3>1. Covers(Entry(t, s))
      BY <1>4
    <3> QED BY <3>1, EntryFields, EntryIsSnapshot DEF Covers
  <2> QED BY <1>3, <1>4, <2>1, CoversLess
(* Nothing is live, before and after.                                       *)
<1>5. ASSUME NothingLive, UNCHANGED hostVars PROVE \A d \in durable' : Covers(d)'
  <2>1. NothingLive'
    BY <1>1, <1>5, OursStep DEF NothingLive
  <2> QED BY <2>1 DEF Covers, NothingLive
<1>6. ASSUME NEW n \in Namespaces, NEW o, RemoveNamespace(n, o), UNCHANGED frr PROVE Shrinks
  BY <1>1, <1>6, OursStep DEF RemoveNamespace, DropNamespace
<1>7. ASSUME NEW o, StopRouting(t, o), UNCHANGED <<phase, veth>> PROVE Shrinks
  BY <1>1, <1>7, OursStep, EntryFields DEF StopRouting, RuntimeRefuses
<1>8. CASE UNCHANGED storeVars /\ UNCHANGED hostVars
  BY <1>2, <1>3, <1>8
<1>9. CASE JournalDeploying(p)
  <2>1. NothingLive
    BY <1>9, EmptyCovers DEF JournalDeploying, JournalAt
  <2> QED BY <1>5, <1>9, <2>1 DEF JournalDeploying
<1>10. CASE JournalDeployed(p)
  <2>1. disk = Entry(t, "deploying")
    BY <1>10 DEF JournalDeployed, JournalAt, Building
  <2>2. durable' \subseteq durable \cup {Entry(t, "deployed")}
    BY <1>10 DEF JournalDeployed, Save, InDoubt, Untouched, Commit, Linger
  <2> QED BY <1>4, <1>10, <2>1, <2>2 DEF JournalDeployed, Statuses
<1>11. CASE JournalDestroying(p)
  <2>1. disk = Entry(t, "deployed")
    BY <1>11 DEF JournalDestroying, JournalAt
  <2>2. durable' \subseteq durable \cup {Entry(t, "destroying")}
    BY <1>11 DEF JournalDestroying, Save, InDoubt, Untouched, Commit, Linger
  <2> QED BY <1>4, <1>11, <2>1, <2>2 DEF JournalDestroying, Statuses
<1>12. CASE RollbackState(p) \/ RollbackRetry(p) \/ DeleteState(p) \/ DeleteRetry(p)
  <2>1. NothingLive /\ UNCHANGED hostVars
    BY <1>12 DEF RollbackState, RollbackRetry, DeleteState, DeleteRetry, ClearedAt
  <2> QED BY <1>5, <2>1
<1>13. CASE CreateNamespace(p)
  <2>1. durable' = {Entry(t, "deploying")} /\ UNCHANGED storeVars
    BY <1>13 DEF CreateNamespace, JournalAt, Building
  <2>2. PICK n \in NodesOf[t] : \A m \in Namespaces \ {n} : phase'[m] = phase[m]
    BY <1>13, TopologyAssumption DEF CreateNamespace, LoopItems
  <2>3. ours' \subseteq ours \cup {n}
    BY <1>1, <2>2, OursStep
  <2>4. Covers(Entry(t, "deploying"))
    BY <2>1
  <2>5. ASSUME NEW d, d = Entry(t, "deploying") PROVE Covers(d)'
    <3>1. UNCHANGED <<veth, frr>>
      BY <1>13 DEF CreateNamespace
    <3> QED BY <2>2, <2>3, <2>4, <2>5, <3>1, EntryFields, EntryIsSnapshot, SMTT(30) DEF Covers,
               Statuses
  <2> QED BY <2>1, <2>5
<1>14. CASE CreateBridge(p) \/ ConfigureNode(p)
  <2>1. \A n \in Namespaces : phase[n] = "absent" => phase'[n] = "absent"
    BY <1>14, TopologyAssumption DEF CreateBridge, ConfigureNode, Configurable
  <2>2. Shrinks
    BY <1>1, <1>14, <2>1, OursStep DEF CreateBridge, ConfigureNode
  <2> QED BY <1>2, <1>14, <2>2 DEF CreateBridge, ConfigureNode
<1>15. CASE CreateVeth(p)
  <2>1. durable' = {Entry(t, "deploying")} /\ UNCHANGED storeVars
    BY <1>15 DEF CreateVeth, JournalAt, Building
  <2>2. PICK l \in LinksOf[t] : \A k \in Links \ {l} : veth'[k] = veth[k]
    BY <1>15, TopologyAssumption DEF CreateVeth, LoopItems
  <2>3. ours' \subseteq ours /\ UNCHANGED frr
    BY <1>1, <1>15, OursStep DEF CreateVeth
  <2>4. Covers(Entry(t, "deploying"))
    BY <2>1
  <2>5. ASSUME NEW d, d = Entry(t, "deploying") PROVE Covers(d)'
    BY <2>2, <2>3, <2>4, <2>5, EntryFields, EntryIsSnapshot DEF Covers, Statuses
  <2> QED BY <2>1, <2>5
<1>16. CASE StartRouting(p)
  <2>1. durable' = {Entry(t, "deploying")} /\ UNCHANGED storeVars
    BY <1>16 DEF StartRouting, JournalAt, Building
  <2>2. frr' # NoRuntime => frr' = frr \/ frr'.topo = t
    BY <1>16, EntryFields DEF StartRouting
  <2>3. ours' \subseteq ours /\ UNCHANGED veth
    BY <1>1, <1>16, OursStep DEF StartRouting
  <2> QED BY <2>1, <2>2, <2>3, EntryFields, EntryIsSnapshot DEF Covers, Statuses
<1>17. CASE RollbackRouting(p) \/ StopLeftovers(p) \/ DestroyRouting(p)
  BY <1>2, <1>7, <1>17 DEF RollbackRouting, StopLeftovers, DestroyRouting
<1>18. CASE RollbackNamespace(p) \/ DestroyNamespace(p)
  BY <1>2, <1>6, <1>18, TopologyAssumption DEF RollbackNamespace, DestroyNamespace,
     LoopItems
<1> QED BY <1>8, <1>9, <1>10, <1>11, <1>12, <1>13, <1>14, <1>15, <1>16, <1>17, <1>18,
           StoreActions, HostActions

(* The strengthened invariant is inductive.                                 *)
LEMMA OrphanStep == TypeInv /\ TypeInv' /\ MutualExclusion /\ IInv /\ [Next]_vars => IInv'
<1> SUFFICES ASSUME TypeInv, TypeInv', MutualExclusion, IInv, [Next]_vars PROVE IInv'
  OBVIOUS
<1> USE DEF IInv
<1>1. ASSUME NEW p \in Procs, Advance(p) PROVE IInv'
  <2>1. Kernel'
    BY <1>1, KernelStep
  <2>2. ASSUME NEW q \in Procs PROVE JournalAt(q)'
    <3>1. CASE q = p
      BY <1>1, <3>1, JournalStep
    <3>2. CASE q # p /\ UNCHANGED storeVars
      BY <1>1, <3>2, Locality DEF TypeInv, JournalAt, storeVars
    <3>3. CASE q # p /\ storeVars' # storeVars
      <4>1. lock = p
        BY <1>1, <3>3, StoreActions
           DEF MutualExclusion, Critical, At, JournalDeploying, JournalDeployed, RollbackState,
               RollbackRetry, JournalDestroying, DeleteState, DeleteRetry
      <4>2. pc'[q] \in {"idle", "queued", "done"}
        BY <1>1, <3>3, <4>1, Locality DEF TypeInv, MutualExclusion, Critical
      <4> QED BY <4>2 DEF JournalAt, Building, Removing
    <3> QED BY <3>1, <3>2, <3>3
  <2>3. ASSUME mishaps["removal"] = 0, NEW q \in Procs PROVE ClearedAt(q)'
    <3>1. CASE q = p
      BY <1>1, <2>3, <3>1, ClearedStep
    <3>2. CASE q # p /\ Critical(q)
      <4>1. lock = q /\ ~Critical(p)
        BY <3>2 DEF MutualExclusion
      <4>2. UNCHANGED hostVars
        BY <1>1, <4>1, HostActions
           DEF Critical, At, CreateNamespace, CreateBridge, CreateVeth, ConfigureNode, StartRouting,
               RollbackRouting, RollbackNamespace, StopLeftovers, DestroyRouting, DestroyNamespace
      <4>3. NothingLive => NothingLive'
        BY <1>1, <4>2, OursStep, HasHistory DEF NothingLive, hostVars
      <4> QED BY <1>1, <2>3, <3>2, <4>2, <4>3, Locality DEF TypeInv, ClearedAt, hostVars
    <3>3. CASE q # p /\ ~Critical(q)
      BY <1>1, <3>3, Locality DEF TypeInv, Critical, ClearedAt
    <3> QED BY <3>1, <3>2, <3>3
  <2>4. mishaps' = mishaps
    BY <1>1, OursStep, HasHistory
  <2>5. mishaps["removal"] = 0 => \A d \in durable' : Covers(d)'
    BY <1>1, CoversStep
  <2> QED BY <2>1, <2>2, <2>3, <2>4, <2>5
(* The store and the kernel stay, and p is where nothing is claimed.        *)
<1>2. ASSUME NEW p \in Procs, Start(p) \/ Crash(p) PROVE IInv'
  <2>1. UNCHANGED <<storeVars, hostVars>> /\ pc'[p] \in {"idle", "queued"}
    BY <1>2 DEF Start, Crash, Forget, Goto, GotoWith, TypeInv, TypeOK, ControlType, FlowType
  <2>2. /\ ours' \subseteq ours /\ mishaps' = mishaps
        /\ \A n \in ours' : phase'[n] # "absent"
    BY <1>2, <2>1, OursStep, HasHistory DEF hostVars
  <2>3. NothingLive => NothingLive'
    BY <2>1, <2>2 DEF NothingLive, hostVars
  <2>4. ASSUME NEW q \in Procs
        PROVE  JournalAt(q)' /\ (mishaps["removal"] = 0 => ClearedAt(q)')
    <3>1. CASE q = p
      BY <2>1, <3>1 DEF JournalAt, ClearedAt, Building, Removing
    <3>2. CASE q # p
      BY <1>2, <2>1, <2>3, <3>2, Locality DEF TypeInv, JournalAt, ClearedAt, storeVars,
         hostVars
    <3> QED BY <3>1, <3>2
  <2>5. Kernel'
    BY <2>1, <2>2 DEF Kernel, hostVars
  <2>6. mishaps["removal"] = 0 => \A d \in durable' : Covers(d)'
    BY <2>1, <2>2, CoversLess DEF storeVars, hostVars
  <2> QED BY <2>2, <2>4, <2>5, <2>6
<1>3. CASE Meddle
  <2> USE DEF TypeInv, TypeOK, HostType, HistoryType
  <2>1. /\ \A l \in Links : veth'[l] = veth[l] \/ veth'[l] = {}
        /\ frr' # NoRuntime => frr # NoRuntime /\ frr'.topo = frr.topo
        /\ ours' \subseteq ours /\ \A n \in ours' : phase'[n] # "absent"
    BY <1>3 DEF Meddle, DropNamespace, Runtimes
  <2>2. Kernel'
    <3>1. ASSUME NEW l \in Links, NEW n \in Namespaces, n \in veth'[l] PROVE phase'[n] # "absent"
      BY <1>3, <3>1 DEF Meddle, DropNamespace, Kernel
    <3> QED BY <2>1, <3>1 DEF Kernel
  <2>3. mishaps'["removal"] = mishaps["removal"] /\ UNCHANGED <<storeVars, controlVars, frameVars>>
    BY <1>3 DEF Meddle, Spend, Mishaps
  <2>4. \A p \in Procs : JournalAt(p)' /\ (ClearedAt(p) => ClearedAt(p)')
    BY <2>1, <2>3 DEF JournalAt, ClearedAt, NothingLive, storeVars, controlVars, frameVars
  <2>5. mishaps["removal"] = 0 => \A d \in durable' : Covers(d)'
    BY <2>1, <2>3, CoversLess DEF storeVars
  <2> QED BY <2>2, <2>3, <2>4, <2>5
<1>4. CASE PowerLoss
  <2> USE DEF TypeInv, TypeOK, StoreType, HostType, HistoryType
  <2>1. /\ ours' = {} /\ \A l \in Links : veth'[l] = {}
        /\ frr' # NoRuntime => frr # NoRuntime /\ frr'.topo = frr.topo
        /\ durable' \subseteq durable /\ \A p \in Procs : pc'[p] = "idle"
    BY <1>4, EntryFields, ValueAssumption DEF PowerLoss, LosePower, Commit
  <2>2. mishaps'["removal"] = mishaps["removal"]
    BY <1>4 DEF PowerLoss, Spend, Mishaps
  <2>3. mishaps["removal"] = 0 => \A d \in durable' : Covers(d)'
    BY <2>1, CoversLess
  <2> QED BY <2>1, <2>2, <2>3 DEF Kernel, JournalAt, ClearedAt, Building, Removing
<1>5. CASE RemoveState
  <2>1. mishaps'["removal"] # 0
    BY <1>5 DEF RemoveState, Spend, Mishaps, TypeInv, TypeOK, HistoryType
  <2>2. \A p \in Procs : ~Critical(p)
    BY <1>5, ValueAssumption DEF RemoveState, MutualExclusion
  <2>3. \A p \in Procs : JournalAt(p)'
    BY <1>5, <2>2 DEF RemoveState, controlVars, Critical, JournalAt, Building, Removing
  <2>4. Kernel'
    BY <1>5 DEF RemoveState, hostVars, Kernel
  <2> QED BY <2>1, <2>3, <2>4
<1>6. CASE UNCHANGED vars
  BY <1>6 DEF vars, storeVars, hostVars, frameVars, controlVars, historyVars,
              Kernel, JournalAt, ClearedAt, NothingLive, Covers
<1> QED BY <1>1, <1>2, <1>3, <1>4, <1>5, <1>6 DEF Next

(* The strengthened invariant, for this proof and for others.               *)
LEMMA JournalInvariant == Spec => [](TypeInv /\ MutualExclusion /\ IInv)
<1>1. Init => IInv
  BY DEF Init, IInv, Kernel, JournalAt, ClearedAt, Covers, Building, Removing
<1> QED BY <1>1, OrphanStep, LockInvariant, PTL DEF Spec

(* Unless the operator removed the journal file, every entry that a crash   *)
(* or a power loss may leave names every namespace, veth pair and routing   *)
(* runtime that is live, whichever steps fail on the way and however many   *)
(* invocations there are (lifecycle.py:203-245, 382-408, 701-873).          *)
THEOREM NothingIsOrphaned == Spec => []LiveIsRecorded
<1>1. IInv => LiveIsRecorded
  BY DEF IInv, LiveIsRecorded
<1> QED BY <1>1, JournalInvariant, PTL

(***************************************************************************)
(* What invocations change and report.                                     *)
(***************************************************************************)

Holding == Building \cup Removing \cup {"reconcile", "rollback_retry", "delete_retry"}
Assembled == {"create_bridges", "create_veths", "configure", "start_routing", "verify",
              "journal_deployed"}
Untried == {"queued", "deploy_load", "compare", "preflight", "destroy_load", "destroy_absent"}

(* A transient entry is that of the invocation at work on it.               *)
AuthorAt(p) == (pc[p] \in Holding /\ Transient(disk)) => author = p

(* created_namespaces holds names of the current plan, and rollback deletes *)
(* no others.                                                               *)
MadeAt(p) ==
  /\ made[p] \subseteq NodesOf[topo[p]]
  /\ made[p] # {} => pc[p] \in Building \cup {"reconcile", "rollback_retry", "unlock", "done"}
  /\ pc[p] = "rollback_namespaces" => todo[p] \subseteq made[p]

(* What a build has come past, and what destroy removes, nslab has created. *)
BornAt(p) ==
  /\ pc[p] \in Building \cup {"reconcile"} => made[p] \subseteq born
  /\ pc[p] = "create_namespaces" => NodesOf[topo[p]] \subseteq todo[p] \cup born
  /\ pc[p] \in Assembled \cup Removing => NodesOf[topo[p]] \subseteq born

(* What a delete that raised may have left.                                 *)
RetryAt(p) ==
  /\ pc[p] = "rollback_retry" => durable \subseteq {NoSnapshot, Entry(topo[p], "deploying")}
  /\ pc[p] = "delete_retry" => durable \subseteq {NoSnapshot, Entry(topo[p], "destroying")}

(* A "deployed" entry that may come back names what nslab has created, and  *)
(* none comes back once the file has been seen absent.                      *)
IsDeployed(d) == d # NoSnapshot /\ d.status = "deployed"
BornEntries ==
  /\ \A d \in durable : IsDeployed(d) => NodesOf[d.topo] \subseteq born
  /\ disk = NoSnapshot => \A d \in durable : ~IsDeployed(d)

(* deploy works on the selected plan, and what is reported is durable.      *)
ReportAt(p) ==
  /\ pc[p] \in Building \cup {"compare", "preflight", "journal_deploying", "reconcile"} =>
       topo[p] = plan[p]
  /\ At(p, "unlock") =>
       /\ result[p] = "deployed"  => durable = {Entry(plan[p], "deployed")}
       /\ result[p] = "destroyed" => durable = {NoSnapshot}

(* Only the labels an invocation passes before its first change refuse.     *)
RefusedAt(p) ==
  /\ result[p] \in Refusals => pc[p] \in {"unlock", "done"}
  /\ pc[p] = "idle" => p \notin touched
  /\ (cmd[p] # "redeploy" /\ (pc[p] \in Untried \/ result[p] \in Refusals)) => p \notin touched

(* What was verified is still so when the "deployed" entry is written.      *)
VerifiedAt(p) ==
  /\ (pc[p] = "journal_deployed" /\ ~disturbed) =>
       InventoryMatches(topo[p]) /\ RoutingReady(topo[p])
  /\ pc[p] \in {"destroy_absent", "stop_leftovers"} => disk = NoSnapshot

PastAt(p) == AuthorAt(p) /\ MadeAt(p) /\ BornAt(p) /\ RetryAt(p) /\ ReportAt(p)
               /\ RefusedAt(p) /\ VerifiedAt(p)
PastInv == (\A p \in Procs : PastAt(p)) /\ BornEntries /\ DeployedIsVerified

-----------------------------------------------------------------------------
(* Steps of other invocations.                                              *)

(* While one invocation is in the locked block the steps of the others move *)
(* nothing it relies on.                                                    *)
LEMMA OthersStandBack ==
  ASSUME TypeInv, MutualExclusion, NEW p \in Procs, NEW q \in Procs \ {p}, Critical(q),
         Advance(p) \/ Start(p) \/ Crash(p)
  PROVE  /\ UNCHANGED <<disk, durable, phase, veth, frr, born, disturbed>>
         /\ author = q => author' = q
<1> USE DEF MutualExclusion
<1>1. ~Critical(p)
  OBVIOUS
<1>2. UNCHANGED <<storeVars, hostVars>> /\ pc'[p] # "journal_deployed"
  <2>1. CASE Start(p) \/ Crash(p)
    BY <2>1 DEF Start, Crash, Forget, Goto, GotoWith, TypeInv, TypeOK, ControlType, FlowType
  <2>2. CASE Advance(p)
    <3>1. UNCHANGED storeVars
      BY <1>1, <2>2, StoreActions
         DEF Critical, At, JournalDeploying, JournalDeployed, RollbackState, RollbackRetry,
             JournalDestroying, DeleteState, DeleteRetry
    <3>2. UNCHANGED hostVars
      BY <1>1, <2>2, HostActions
         DEF Critical, At, CreateNamespace, CreateBridge, CreateVeth, ConfigureNode, StartRouting,
             RollbackRouting, RollbackNamespace, StopLeftovers, DestroyRouting, DestroyNamespace
    <3>3. Acquire(p) \/ LockRefused(p) \/ Exit(p)
      BY <1>1, <2>2
         DEF Critical, At, Advance, Unlock, DeployLoad, Compare, Preflight, JournalDeploying,
             EndStage, CreateNamespace, CreateBridge, CreateVeth, ConfigureNode, StartRouting,
             Verify, JournalDeployed, Reconcile, RollbackRouting, RollbackNamespace,
             RollbackInventory, RollbackState, RollbackRetry, DestroyLoad, DestroyAbsent,
             StopLeftovers, JournalDestroying, DestroyRouting, DestroyNamespace, DestroyInventory,
             DeleteState, DeleteRetry
    <3> QED
      BY <3>1, <3>2, <3>3
         DEF Acquire, LockRefused, Exit, Forget, Goto, GotoWith, TypeInv, TypeOK, ControlType,
             FlowType
  <2> QED BY <2>1, <2>2
<1>3. History(p)
  BY HasHistory
<1> QED
  BY <1>2, <1>3
     DEF History, storeVars, hostVars, TypeInv, TypeOK, HistoryType, ControlType, FlowType

(* Nor do they disturb what an invocation outside the block still claims.   *)
LEMMA OthersPast ==
  ASSUME TypeInv, MutualExclusion, PastInv, NEW p \in Procs, NEW q \in Procs \ {p},
         Advance(p) \/ Start(p) \/ Crash(p)
  PROVE  PastAt(q)'
<1> USE DEF PastInv, PastAt, MadeAt
<1>1. /\ pc'[q] = pc[q] /\ todo'[q] = todo[q] /\ topo'[q] = topo[q] /\ bad'[q] = bad[q]
      /\ cmd'[q] = cmd[q] /\ plan'[q] = plan[q] /\ made'[q] = made[q] /\ result'[q] = result[q]
  BY Locality DEF TypeInv
<1>2. q \in touched' <=> q \in touched
  BY HasHistory DEF History
<1>3. RefusedAt(q)' /\ MadeAt(q)'
  BY <1>1, <1>2 DEF RefusedAt
<1>4. CASE Critical(q)
  BY <1>1, <1>3, <1>4, OthersStandBack
     DEF AuthorAt, BornAt, RetryAt, ReportAt, VerifiedAt, At, InventoryMatches, RoutingReady
<1>5. CASE ~Critical(q)
  BY <1>1, <1>3, <1>5
     DEF Critical, AuthorAt, BornAt, RetryAt, ReportAt, VerifiedAt, At, Holding, Building, Removing,
         Assembled
<1> QED BY <1>4, <1>5
-----------------------------------------------------------------------------
(* An invocation's own steps.                                               *)

(* What is in doubt after a save or a delete is between the old entry and   *)
(* the new one, and "ok" means that nothing is.                             *)
LEMMA SaveEffect ==
  ASSUME NEW new, NEW outcome \in WriteOutcomes, Save(new, outcome)
  PROVE  /\ disk' \in {disk, new}
         /\ durable' \subseteq durable \cup {new}
         /\ outcome = "ok" => disk' = new /\ durable' = {new}
         /\ outcome = "plain" => UNCHANGED <<disk, durable>>
  BY DEF Save, InDoubt, Untouched, Commit, Linger, storeVars, WriteOutcomes

(* The same of a delete, which syncs nothing when there is no file.         *)
LEMMA DeleteEffect ==
  ASSUME NEW outcome \in DeleteOutcomes, Delete(outcome)
  PROVE  /\ disk' \in {disk, NoSnapshot}
         /\ durable' \subseteq durable \cup {NoSnapshot}
         /\ outcome = "ok" /\ disk # NoSnapshot => durable' = {NoSnapshot}
  BY DEF Delete, InDoubt, Untouched, Commit, Linger, storeVars, DeleteOutcomes

(* Where the entry that is visible is the invocation's own.                 *)
LEMMA OwnEntry ==
  ASSUME TypeInv, IInv, NEW p \in Procs
  PROVE  /\ pc[p] \in Building => disk = Entry(topo[p], "deploying")
         /\ pc[p] \in Removing => disk = Entry(topo[p], "destroying")
         /\ \A s \in Statuses : Entry(topo[p], s) # NoSnapshot
         /\ \A s \in Statuses : Entry(topo[p], s).status = s /\ Entry(topo[p], s).topo = topo[p]
  BY EntryFields, EntryIsSnapshot
     DEF IInv, JournalAt, TypeInv, TypeOK, StoreType, ControlType, FrameType

(* An invocation signs the transient entry it writes.                       *)
LEMMA AuthorStep ==
  ASSUME TypeInv, TypeInv', IInv, NEW p \in Procs, AuthorAt(p), Advance(p)
  PROVE  AuthorAt(p)'
<1> USE DEF TypeInv, TypeOK, ControlType, FlowType, AuthorAt, At, frameVars,
            Goto, GotoWith, Done, Finish, Fails, RollBack, Destroyed, Transient,
            Holding, Building, Removing, storeVars
<1>1. History(p)
  BY HasHistory
<1>2. disk' # disk /\ Transient(disk') => author' = p
  BY <1>1 DEF History
<1>3. (disk' = disk /\ author = p /\ pc'[p] \notin {"done", "idle"}) => author' = p
  BY <1>1 DEF History
<1>4. CASE pc[p] \in Holding
  <2>1. CASE disk' # disk
    BY <1>2, <2>1
  <2>2. CASE disk' = disk
    BY <1>3, <1>4, <2>2
  <2> QED BY <2>1, <2>2
<1>5. CASE pc[p] \notin Holding
  <2>1. CASE JournalDeploying(p)
    BY <1>2, <2>1, SaveEffect DEF JournalDeploying, Journalled, IInv, JournalAt
  <2>2. CASE JournalDestroying(p)
    <3>1. disk.status = "deployed" /\ disk # NoSnapshot
      BY <2>2, OwnEntry DEF JournalDestroying, IInv, JournalAt, Statuses
    <3> QED BY <1>2, <2>2, <3>1
            DEF JournalDestroying, Journalled, Save, InDoubt, Untouched, Commit, Linger
  <2>3. CASE Acquire(p) \/ LockRefused(p) \/ Unlock(p)
    BY <1>5, <2>3 DEF Acquire, LockRefused, Unlock
  <2>4. CASE Exit(p)
    BY <2>4 DEF Exit, Forget
  <2>5. CASE DeployLoad(p) \/ Compare(p) \/ Preflight(p)
    BY <1>5, <2>5 DEF DeployLoad, Compare, Preflight
  <2>6. CASE DestroyLoad(p) \/ DestroyAbsent(p)
    BY <1>5, <2>6 DEF DestroyLoad, DestroyAbsent
  <2>7. CASE StopLeftovers(p)
    BY <1>5, <2>7 DEF StopLeftovers
  <2> QED
    BY <1>5, <2>1, <2>2, <2>3, <2>4, <2>5, <2>6, <2>7
       DEF Advance, EndStage, CreateNamespace, CreateBridge, CreateVeth, ConfigureNode,
           StartRouting, Verify, JournalDeployed, Reconcile, RollbackRouting, RollbackNamespace,
           RollbackInventory, RollbackState, RollbackRetry, DestroyRouting, DestroyNamespace,
           DestroyInventory, DeleteState, DeleteRetry
<1> QED BY <1>4, <1>5

(* created_namespaces grows in the first loop only, by names of the plan,   *)
(* and rollback starts from what it holds.                                  *)
LEMMA MadeStep ==
  ASSUME TypeInv, NEW p \in Procs, MadeAt(p), Advance(p)
  PROVE  MadeAt(p)'
<1> USE DEF TypeInv, TypeOK, ControlType, FlowType, FrameType, LoopItems, MadeAt, Building, At,
            frameVars, Goto, GotoWith, Done, Finish, Fails, RollBack, Destroyed, Forget, SetBad
<1>1. CASE Acquire(p) \/ LockRefused(p) \/ Unlock(p) \/ Exit(p)
  BY <1>1, TopologyAssumption, SomeTopoType DEF Acquire, LockRefused, Unlock, Exit
<1>2. CASE DeployLoad(p) \/ DestroyLoad(p)
  BY <1>2, TopologyAssumption DEF DeployLoad, DestroyLoad
<1>3. CASE Compare(p) \/ Preflight(p) \/ DestroyAbsent(p) \/ StopLeftovers(p)
  BY <1>3 DEF Compare, Preflight, DestroyAbsent, StopLeftovers
<1>4. CASE JournalDeploying(p) \/ JournalDestroying(p) \/ JournalDeployed(p) \/ Reconcile(p)
  BY <1>4 DEF JournalDeploying, JournalDestroying, JournalDeployed, Reconcile
<1>5. CASE EndStage(p)
  BY <1>5 DEF EndStage
<1>6. CASE CreateNamespace(p)
  BY <1>6 DEF CreateNamespace
<1>7. CASE CreateBridge(p) \/ CreateVeth(p) \/ ConfigureNode(p)
  BY <1>7 DEF CreateBridge, CreateVeth, ConfigureNode
<1>8. CASE StartRouting(p) \/ Verify(p)
  BY <1>8 DEF StartRouting, Verify
<1>9. CASE RollbackRouting(p) \/ RollbackNamespace(p) \/ RollbackInventory(p)
  BY <1>9 DEF RollbackRouting, RollbackNamespace, RollbackInventory
<1>10. CASE RollbackState(p) \/ RollbackRetry(p)
  BY <1>10 DEF RollbackState, RollbackRetry
<1>11. CASE DestroyRouting(p) \/ DestroyNamespace(p) \/ DestroyInventory(p)
  BY <1>11 DEF DestroyRouting, DestroyNamespace, DestroyInventory
<1>12. CASE DeleteState(p) \/ DeleteRetry(p)
  BY <1>12 DEF DeleteState, DeleteRetry
<1> QED
  BY <1>1, <1>2, <1>3, <1>4, <1>5, <1>6, <1>7, <1>8, <1>9, <1>10, <1>11, <1>12 DEF Advance

(* What a build creates is recorded as created, and nothing forgets it but  *)
(* the entry of the next build.                                             *)
LEMMA BornGrows ==
  ASSUME TypeInv, NEW p \in Procs, Advance(p), ~JournalDeploying(p)
  PROVE  born' = born \cup {n \in Namespaces : phase[n] = "absent" /\ phase'[n] # "absent"}
<1> DEFINE own == Entry(topo[p], "deploying")
<1>1. own # NoSnapshot /\ \A s \in Statuses \ {"deploying"} : own # Entry(topo[p], s)
  BY EntryFields, EntryIsSnapshot DEF TypeInv, TypeOK, ControlType, FrameType, Statuses
<1>2. disk' = disk \/ disk' # own
  <2>1. CASE storeVars' = storeVars
    BY <2>1 DEF storeVars
  <2>2. CASE JournalDeployed(p) \/ JournalDestroying(p)
    BY <1>1, <2>2, SaveEffect DEF JournalDeployed, JournalDestroying, Statuses
  <2>3. CASE RollbackState(p) \/ RollbackRetry(p) \/ DeleteState(p) \/ DeleteRetry(p)
    BY <1>1, <2>3, DeleteEffect
       DEF RollbackState, RollbackRetry, DeleteState, DeleteRetry, Untouched, storeVars
  <2> QED BY <2>1, <2>2, <2>3, StoreActions
<1> QED BY <1>2, HasHistory DEF History

(* Names are born where they are made, and stay so until the next build.    *)
LEMMA BornStep ==
  ASSUME TypeInv, IInv, NEW p \in Procs, MadeAt(p), BornAt(p), BornEntries, Advance(p)
  PROVE  BornAt(p)'
<1> USE DEF TypeInv, TypeOK, ControlType, FlowType, FrameType, LoopItems, BornAt, At, frameVars,
            Goto, GotoWith, Done, Finish, Fails, RollBack, Destroyed,
            Building, Removing, Assembled
<1>1. ~JournalDeploying(p) => born \subseteq born'
  BY BornGrows
<1>2. CASE Acquire(p) \/ LockRefused(p) \/ Unlock(p)
  BY <1>2 DEF Acquire, LockRefused, Unlock
<1>3. CASE Exit(p)
  BY <1>3 DEF Exit, Forget
<1>4. CASE DeployLoad(p) \/ Compare(p) \/ Preflight(p) \/ DestroyLoad(p) \/ DestroyAbsent(p)
  BY <1>4 DEF DeployLoad, Compare, Preflight, DestroyLoad, DestroyAbsent
<1>5. CASE StopLeftovers(p)
  BY <1>5 DEF StopLeftovers
<1>6. CASE JournalDeploying(p)
  BY <1>6 DEF JournalDeploying, MadeAt
<1>7. CASE JournalDestroying(p)
  <2>1. IsDeployed(disk) /\ disk.topo = topo[p] /\ disk \in durable
    BY <1>7, OwnEntry DEF JournalDestroying, IInv, JournalAt, IsDeployed, Statuses, StoreType
  <2>2. NodesOf[topo[p]] \subseteq born /\ ~JournalDeploying(p)
    BY <1>7, <2>1 DEF BornEntries, JournalDestroying, JournalDeploying
  <2> QED BY <1>1, <1>7, <2>2 DEF JournalDestroying, MadeAt
<1>8. CASE JournalDeployed(p) \/ Reconcile(p)
  BY <1>1, <1>8 DEF JournalDeployed, Reconcile, JournalDeploying
<1>9. CASE EndStage(p)
  BY <1>1, <1>9 DEF EndStage, JournalDeploying
<1>10. CASE CreateNamespace(p)
  <2>1. PICK n \in todo[p] :
          \/ Done(p, n) /\ phase[n] = "absent" /\ phase' = [phase EXCEPT ![n] = "bare"]
               /\ made' = [made EXCEPT ![p] = @ \cup {n}]
          \/ RollBack(p) /\ UNCHANGED made
    BY <1>10 DEF CreateNamespace
  <2>2. n \in Namespaces
    BY <1>10, TopologyAssumption DEF CreateNamespace
  <2>3. born \subseteq born' /\ (phase[n] = "absent" /\ phase'[n] = "bare" => n \in born')
    BY <1>10, <2>2, BornGrows DEF CreateNamespace, JournalDeploying
  <2>4. UNCHANGED topo
    BY <1>10 DEF CreateNamespace
  <2>5. CASE RollBack(p) /\ UNCHANGED made
    BY <1>10, <2>3, <2>4, <2>5 DEF CreateNamespace
  <2>6. CASE /\ Done(p, n) /\ phase[n] = "absent" /\ phase' = [phase EXCEPT ![n] = "bare"]
             /\ made' = [made EXCEPT ![p] = @ \cup {n}]
    <3>1. n \in born' /\ pc'[p] = "create_namespaces" /\ todo'[p] = todo[p] \ {n}
            /\ made'[p] = made[p] \cup {n} /\ topo'[p] = topo[p]
      BY <1>10, <2>2, <2>3, <2>4, <2>6 DEF CreateNamespace, HostType
    <3> QED BY <1>10, <2>3, <3>1 DEF CreateNamespace
  <2> QED BY <2>1, <2>5, <2>6
<1>11. CASE CreateBridge(p) \/ CreateVeth(p) \/ ConfigureNode(p)
  BY <1>1, <1>11 DEF CreateBridge, CreateVeth, ConfigureNode, JournalDeploying
<1>12. CASE StartRouting(p) \/ Verify(p)
  BY <1>1, <1>12 DEF StartRouting, Verify, JournalDeploying
<1>13. CASE RollbackRouting(p) \/ RollbackNamespace(p) \/ RollbackInventory(p)
  BY <1>1, <1>13 DEF RollbackRouting, RollbackNamespace, RollbackInventory, JournalDeploying
<1>14. CASE RollbackState(p) \/ RollbackRetry(p)
  BY <1>14 DEF RollbackState, RollbackRetry
<1>15. CASE DestroyRouting(p) \/ DestroyNamespace(p) \/ DestroyInventory(p)
  BY <1>1, <1>15 DEF DestroyRouting, DestroyNamespace, DestroyInventory, JournalDeploying, MadeAt
<1>16. CASE DeleteState(p) \/ DeleteRetry(p)
  BY <1>16 DEF DeleteState, DeleteRetry, MadeAt
<1> QED
  BY <1>2, <1>3, <1>4, <1>5, <1>6, <1>7, <1>8, <1>9, <1>10, <1>11, <1>12, <1>13, <1>14, <1>15,
     <1>16 DEF Advance

(* A delete is retried only when the one before it may have done its work.  *)
LEMMA RetryStep ==
  ASSUME TypeInv, IInv, NEW p \in Procs, RetryAt(p), Advance(p)
  PROVE  RetryAt(p)'
<1> USE DEF TypeInv, TypeOK, ControlType, FlowType, FrameType, RetryAt, At, frameVars
<1>1. CASE RollbackState(p)
  BY <1>1, DeleteEffect
     DEF RollbackState, IInv, JournalAt, Building, Goto, GotoWith, Fails, Finish, Untouched
<1>2. CASE DeleteState(p)
  BY <1>2, DeleteEffect
     DEF DeleteState, IInv, JournalAt, Removing, Goto, GotoWith, Fails, Finish, Destroyed
<1>3. CASE ~RollbackState(p) /\ ~DeleteState(p)
  <2>1. pc'[p] \notin {"rollback_retry", "delete_retry"}
    BY <1>3
       DEF Goto, GotoWith, Done, Finish, Fails, RollBack, Destroyed, Forget, Advance, Acquire,
           LockRefused, Unlock, Exit, DeployLoad, Compare, Preflight, JournalDeploying, EndStage,
           CreateNamespace, CreateBridge, CreateVeth, ConfigureNode, StartRouting, Verify,
           JournalDeployed, Reconcile, RollbackRouting, RollbackNamespace, RollbackInventory,
           RollbackRetry, DestroyLoad, DestroyAbsent, StopLeftovers, JournalDestroying,
           DestroyRouting, DestroyNamespace, DestroyInventory, DeleteRetry
  <2> QED BY <2>1
<1> QED BY <1>1, <1>2, <1>3

(* "deployed" and "destroyed" are reported right after the call that made   *)
(* them durable.                                                            *)
LEMMA ReportStep ==
  ASSUME TypeInv, IInv, NEW p \in Procs, ReportAt(p), Advance(p)
  PROVE  ReportAt(p)'
<1> USE DEF TypeInv, TypeOK, ControlType, FlowType, FrameType, ReportAt, At, frameVars, storeVars,
            Goto, GotoWith, Done, Finish, Fails, RollBack, Destroyed, Building
<1>1. CASE Acquire(p) \/ LockRefused(p) \/ Unlock(p)
  BY <1>1 DEF Acquire, LockRefused, Unlock
<1>2. CASE Exit(p)
  BY <1>2 DEF Exit, Forget
<1>3. CASE DeployLoad(p) \/ Compare(p) \/ Preflight(p)
  BY <1>3 DEF DeployLoad, Compare, Preflight
<1>4. CASE DestroyLoad(p) \/ DestroyAbsent(p) \/ StopLeftovers(p)
  BY <1>4 DEF DestroyLoad, DestroyAbsent, StopLeftovers
<1>5. CASE JournalDeploying(p) \/ JournalDestroying(p)
  BY <1>5 DEF JournalDeploying, JournalDestroying
<1>6. CASE JournalDeployed(p)
  BY <1>6, SaveEffect DEF JournalDeployed
<1>7. CASE EndStage(p) \/ Reconcile(p)
  BY <1>7 DEF EndStage, Reconcile
<1>8. CASE CreateNamespace(p) \/ CreateBridge(p) \/ CreateVeth(p) \/ ConfigureNode(p)
  BY <1>8 DEF CreateNamespace, CreateBridge, CreateVeth, ConfigureNode
<1>9. CASE StartRouting(p) \/ Verify(p)
  BY <1>9 DEF StartRouting, Verify
<1>10. CASE RollbackRouting(p) \/ RollbackNamespace(p) \/ RollbackInventory(p)
  BY <1>10 DEF RollbackRouting, RollbackNamespace, RollbackInventory
<1>11. CASE RollbackState(p) \/ RollbackRetry(p)
  BY <1>11 DEF RollbackState, RollbackRetry
<1>12. CASE DestroyRouting(p) \/ DestroyNamespace(p) \/ DestroyInventory(p)
  BY <1>12 DEF DestroyRouting, DestroyNamespace, DestroyInventory
<1>13. CASE DeleteState(p)
  BY <1>13, OwnEntry, DeleteEffect DEF DeleteState, Removing, Statuses
<1>14. CASE DeleteRetry(p)
  BY <1>14, OwnEntry, DeleteEffect DEF DeleteRetry, RetrySafe, Statuses
<1> QED
  BY <1>1, <1>2, <1>3, <1>4, <1>5, <1>6, <1>7, <1>8, <1>9, <1>10, <1>11, <1>12, <1>13, <1>14
     DEF Advance

(* An invocation has touched nothing while it may still refuse.             *)
LEMMA RefusedStep ==
  ASSUME TypeInv, NEW p \in Procs, RefusedAt(p), Advance(p)
  PROVE  RefusedAt(p)'
<1> USE DEF TypeInv, TypeOK, ControlType, FlowType, FrameType, RefusedAt, At, frameVars,
            Goto, GotoWith, Done, Finish, Fails, RollBack, Destroyed, Refusals, Untried
<1>1. /\ UNCHANGED <<storeVars, hostVars>> /\ p \notin touched => p \notin touched'
      /\ pc'[p] = "idle" => p \notin touched'
  BY HasHistory DEF History, storeVars
<1>2. CASE Acquire(p) \/ LockRefused(p) \/ Unlock(p)
  BY <1>1, <1>2 DEF Acquire, LockRefused, Unlock, Successes
<1>3. CASE Exit(p)
  BY <1>1, <1>3 DEF Exit, Forget
<1>4. CASE DeployLoad(p) \/ Compare(p) \/ Preflight(p)
  BY <1>1, <1>4 DEF DeployLoad, Compare, Preflight
<1>5. CASE DestroyLoad(p) \/ DestroyAbsent(p)
  BY <1>1, <1>5 DEF DestroyLoad, DestroyAbsent
<1>6. CASE StopLeftovers(p) \/ JournalDestroying(p) \/ JournalDeploying(p)
  BY <1>6 DEF StopLeftovers, JournalDestroying, JournalDeploying
<1>7. CASE EndStage(p) \/ CreateNamespace(p) \/ CreateBridge(p) \/ CreateVeth(p)
  BY <1>7 DEF EndStage, CreateNamespace, CreateBridge, CreateVeth
<1>8. CASE ConfigureNode(p) \/ StartRouting(p) \/ Verify(p) \/ JournalDeployed(p) \/ Reconcile(p)
  BY <1>8 DEF ConfigureNode, StartRouting, Verify, JournalDeployed, Reconcile
<1>9. CASE RollbackRouting(p) \/ RollbackNamespace(p) \/ RollbackInventory(p)
  BY <1>9 DEF RollbackRouting, RollbackNamespace, RollbackInventory
<1>10. CASE RollbackState(p) \/ RollbackRetry(p)
  BY <1>10 DEF RollbackState, RollbackRetry
<1>11. CASE DestroyRouting(p) \/ DestroyNamespace(p) \/ DestroyInventory(p)
  BY <1>11 DEF DestroyRouting, DestroyNamespace, DestroyInventory
<1>12. CASE DeleteState(p) \/ DeleteRetry(p)
  BY <1>12 DEF DeleteState, DeleteRetry
<1> QED
  BY <1>2, <1>3, <1>4, <1>5, <1>6, <1>7, <1>8, <1>9, <1>10, <1>11, <1>12 DEF Advance

(* Nothing happens between the verification and the entry but what is       *)
(* recorded as a disturbance.                                               *)
LEMMA VerifiedStep ==
  ASSUME TypeInv, NEW p \in Procs, VerifiedAt(p), Advance(p)
  PROVE  VerifiedAt(p)'
<1> USE DEF TypeInv, TypeOK, ControlType, FlowType, FrameType, VerifiedAt, At, frameVars,
            storeVars, hostVars, Goto, GotoWith, Done, Finish, Fails, RollBack, Destroyed
<1>1. CASE Verify(p)
  BY <1>1 DEF Verify, InventoryMatches, RoutingReady
<1>2. CASE DestroyLoad(p) \/ DestroyAbsent(p)
  BY <1>2 DEF DestroyLoad, DestroyAbsent
<1>3. CASE StopLeftovers(p)
  BY <1>3 DEF StopLeftovers
<1>4. CASE ~Verify(p) /\ ~DestroyLoad(p) /\ ~DestroyAbsent(p) /\ ~StopLeftovers(p)
  <2>1. pc'[p] \notin {"journal_deployed", "destroy_absent", "stop_leftovers"}
    BY <1>4
       DEF Forget, Advance, Acquire, LockRefused, Unlock, Exit, DeployLoad, Compare, Preflight,
           JournalDeploying, EndStage, CreateNamespace, CreateBridge, CreateVeth, ConfigureNode,
           StartRouting, JournalDeployed, Reconcile, RollbackRouting, RollbackNamespace,
           RollbackInventory, RollbackState, RollbackRetry, JournalDestroying, DestroyRouting,
           DestroyNamespace, DestroyInventory, DeleteState, DeleteRetry
  <2> QED BY <2>1
<1> QED BY <1>1, <1>2, <1>3, <1>4

(* A "deployed" entry is written over the build that created its names, and *)
(* none is left when a new build begins.                                    *)
LEMMA EntriesStep ==
  ASSUME TypeInv, TypeInv', IInv, NEW p \in Procs, BornAt(p), RetryAt(p), BornEntries, Advance(p)
  PROVE  BornEntries'
<1> USE DEF TypeInv, TypeOK, StoreType, ControlType, FrameType, At
<1> DEFINE t == topo[p]
<1>1. \A s \in Statuses : /\ Entry(t, s) # NoSnapshot /\ Entry(t, s).topo = t
                          /\ IsDeployed(Entry(t, s)) <=> s = "deployed"
  BY OwnEntry DEF IsDeployed
<1>2. ~IsDeployed(NoSnapshot)
  BY DEF IsDeployed
<1>3. ~JournalDeploying(p) => born \subseteq born'
  BY BornGrows
<1>4. CASE UNCHANGED storeVars
  <2>1. born \subseteq born'
    BY <1>4, HasHistory DEF History, storeVars
  <2> QED BY <1>4, <2>1 DEF BornEntries, storeVars
<1>5. CASE JournalDeploying(p)
  <2>1. disk = NoSnapshot
    BY <1>5 DEF JournalDeploying, IInv, JournalAt
  <2>2. \A d \in durable' : ~IsDeployed(d)
    BY <1>1, <1>5, <2>1, SaveEffect DEF JournalDeploying, BornEntries, Statuses
  <2> QED BY <2>2 DEF BornEntries
<1>6. CASE JournalDeployed(p)
  <2>1. durable = {Entry(t, "deploying")} /\ disk = Entry(t, "deploying")
    BY <1>6, OwnEntry DEF JournalDeployed, IInv, JournalAt, Building
  <2>2. disk' # NoSnapshot /\ durable' \subseteq {Entry(t, "deploying"), Entry(t, "deployed")}
    BY <1>1, <1>6, <2>1, SaveEffect DEF JournalDeployed, Statuses
  <2>3. NodesOf[t] \subseteq born'
    BY <1>3, <1>6 DEF JournalDeployed, JournalDeploying, BornAt, Assembled
  <2> QED BY <1>1, <2>2, <2>3 DEF BornEntries, Statuses
<1>7. CASE JournalDestroying(p)
  <2>1. disk = Entry(t, "deployed")
    BY <1>7 DEF JournalDestroying, IInv, JournalAt
  <2>2. disk' # NoSnapshot /\ durable' \subseteq durable \cup {Entry(t, "destroying")}
    BY <1>1, <1>7, <2>1, SaveEffect DEF JournalDestroying, Statuses
  <2>3. born \subseteq born'
    BY <1>3, <1>7 DEF JournalDestroying, JournalDeploying
  <2> QED BY <1>1, <2>2, <2>3 DEF BornEntries, Statuses
<1>8. CASE RollbackState(p) \/ RollbackRetry(p) \/ DeleteState(p) \/ DeleteRetry(p)
  <2>1. \A d \in durable : ~IsDeployed(d)
    BY <1>1, <1>2, <1>8
       DEF RollbackState, RollbackRetry, DeleteState, DeleteRetry, IInv, JournalAt, RetryAt,
           Building, Removing, Statuses
  <2>2. durable' \subseteq durable \cup {NoSnapshot}
    BY <1>8, DeleteEffect
       DEF RollbackState, RollbackRetry, DeleteState, DeleteRetry, Untouched, storeVars
  <2> QED BY <1>2, <2>1, <2>2 DEF BornEntries
<1> QED BY <1>4, <1>5, <1>6, <1>7, <1>8, StoreActions

(* The kernel is changed under a transient entry or none, and a "deployed"  *)
(* entry is written at the end of a build that has just been verified.      *)
LEMMA TruthStep ==
  ASSUME TypeInv, IInv, NEW p \in Procs, VerifiedAt(p), DeployedIsVerified, Advance(p)
  PROVE  DeployedIsVerified'
<1> USE DEF TypeInv, TypeOK, ControlType, FrameType, At
<1> DEFINE t == topo[p]
<1>1. \A s \in Statuses : Entry(t, s).topo = t /\ Entry(t, s).status = s
  BY OwnEntry
<1>2. CASE hostVars' # hostVars
  <2>1. ~IsDeployed(disk) /\ UNCHANGED disk
    <3>1. CASE StopLeftovers(p)
      BY <3>1 DEF StopLeftovers, VerifiedAt, IsDeployed, storeVars
    <3>2. CASE CreateNamespace(p) \/ CreateBridge(p) \/ CreateVeth(p) \/ ConfigureNode(p)
      BY <1>1, <3>2, OwnEntry
         DEF CreateNamespace, CreateBridge, CreateVeth, ConfigureNode, IsDeployed, storeVars,
             Building, Statuses
    <3>3. CASE StartRouting(p) \/ RollbackRouting(p) \/ RollbackNamespace(p)
      BY <1>1, <3>3, OwnEntry
         DEF StartRouting, RollbackRouting, RollbackNamespace, IsDeployed, storeVars, Building,
             Statuses
    <3>4. CASE DestroyRouting(p) \/ DestroyNamespace(p)
      BY <1>1, <3>4, OwnEntry
         DEF DestroyRouting, DestroyNamespace, IsDeployed, storeVars, Removing, Statuses
    <3> QED BY <1>2, <3>1, <3>2, <3>3, <3>4, HostActions
  <2> QED BY <2>1 DEF DeployedIsVerified, IsDeployed
<1>3. CASE UNCHANGED hostVars
  <2>1. \A u \in Topos : (InventoryMatches(u) /\ RoutingReady(u)) <=>
                         (InventoryMatches(u) /\ RoutingReady(u))'
    BY <1>3 DEF InventoryMatches, RoutingReady, hostVars
  <2>2. CASE Verify(p)
    BY <1>1, <2>2, OwnEntry DEF Verify, DeployedIsVerified, storeVars, Building, Statuses
  <2>3. CASE JournalDeployed(p)
    <3>1. disk' = disk \/ disk' = Entry(t, "deployed")
      BY <2>3, SaveEffect DEF JournalDeployed
    <3>2. disturbed' = disturbed
      BY <2>3
         DEF JournalDeployed, Finish, RollBack, Goto, GotoWith, History, FlowType, HistoryType
    <3> QED BY <1>1, <1>3, <2>3, <3>1, <3>2
            DEF JournalDeployed, DeployedIsVerified, VerifiedAt, InventoryMatches, RoutingReady,
                hostVars, Statuses
  <2>4. CASE ~Verify(p) /\ ~JournalDeployed(p)
    <3>1. IsDeployed(disk') => disk' = disk
      <4>1. CASE UNCHANGED storeVars
        BY <4>1 DEF storeVars
      <4>2. CASE JournalDeploying(p) \/ JournalDestroying(p)
        BY <1>1, <4>2, SaveEffect DEF JournalDeploying, JournalDestroying, IsDeployed, Statuses
      <4>3. CASE RollbackState(p) \/ RollbackRetry(p) \/ DeleteState(p) \/ DeleteRetry(p)
        BY <4>3, DeleteEffect
           DEF RollbackState, RollbackRetry, DeleteState, DeleteRetry, IsDeployed, Untouched,
               storeVars
      <4> QED BY <2>4, <4>1, <4>2, <4>3, StoreActions
    <3>2. pc'[p] # "journal_deployed"
      BY <2>4
         DEF Forget, Goto, GotoWith, Done, Finish, Fails, RollBack, Destroyed, FlowType,
             Advance, Acquire, LockRefused, Unlock, Exit, DeployLoad, Compare, Preflight,
             JournalDeploying, EndStage, CreateNamespace, CreateBridge, CreateVeth, ConfigureNode,
             StartRouting, Reconcile, RollbackRouting, RollbackNamespace, RollbackInventory,
             RollbackState, RollbackRetry, DestroyLoad, DestroyAbsent, StopLeftovers,
             JournalDestroying, DestroyRouting, DestroyNamespace, DestroyInventory, DeleteState,
             DeleteRetry
    <3>3. disturbed' = disturbed
      BY <3>2, HasHistory DEF History, HistoryType
    <3> QED BY <1>3, <3>1, <3>3
            DEF DeployedIsVerified, IsDeployed, InventoryMatches, RoutingReady, hostVars
  <2> QED BY <2>2, <2>3, <2>4
<1> QED BY <1>2, <1>3

-----------------------------------------------------------------------------
(* The invariant, and what follows from it.                                 *)

(* A new or a killed invocation claims nothing.                             *)
LEMMA FreshPast ==
  ASSUME TypeInv, PastInv, NEW p \in Procs, Start(p) \/ Crash(p)
  PROVE  PastAt(p)' /\ BornEntries' /\ DeployedIsVerified'
<1> USE DEF TypeInv, TypeOK, ControlType, FlowType, FrameType, PastInv, PastAt
<1>1. /\ UNCHANGED <<storeVars, hostVars>> /\ made'[p] = {}
      /\ \/ pc'[p] = "idle" /\ result'[p] = "none"
         \/ pc'[p] = "queued" /\ result'[p] = result[p] /\ pc[p] = "idle" /\ touched' = touched
  BY HasHistory
     DEF Start, Crash, Forget, Idle, Goto, GotoWith, MadeAt, Building, History, storeVars, hostVars
<1>2. /\ born' = born /\ disturbed' = disturbed
      /\ pc'[p] = "idle" => p \notin touched'
  BY <1>1, HasHistory DEF History, storeVars, hostVars, HistoryType
<1>3. RefusedAt(p)'
  BY <1>1, <1>2 DEF RefusedAt, Refusals
<1>4. MadeAt(p)' /\ BornAt(p)' /\ AuthorAt(p)' /\ RetryAt(p)' /\ ReportAt(p)' /\ VerifiedAt(p)'
  BY <1>1
     DEF MadeAt, BornAt, AuthorAt, RetryAt, ReportAt, VerifiedAt, At, Holding, Building, Removing,
         Assembled
<1>5. BornEntries' /\ DeployedIsVerified'
  BY <1>1, <1>2
     DEF BornEntries, DeployedIsVerified, InventoryMatches, RoutingReady, storeVars, hostVars
<1> QED BY <1>3, <1>4, <1>5

(* Inductive, given types, mutual exclusion and the journal's invariant.    *)
LEMMA PastStep ==
  TypeInv /\ TypeInv' /\ MutualExclusion /\ IInv /\ PastInv /\ [Next]_vars => PastInv'
<1> SUFFICES ASSUME TypeInv, TypeInv', MutualExclusion, IInv, PastInv, [Next]_vars PROVE PastInv'
  OBVIOUS
<1>1. ASSUME NEW p \in Procs, Advance(p) PROVE PastInv'
  <2>1. PastAt(p)'
    BY <1>1, AuthorStep, MadeStep, BornStep, RetryStep, ReportStep, RefusedStep, VerifiedStep
       DEF PastInv, PastAt
  <2>2. BornEntries' /\ DeployedIsVerified'
    BY <1>1, EntriesStep, TruthStep DEF PastInv, PastAt
  <2> QED BY <1>1, <2>1, <2>2, OthersPast DEF PastInv
<1>2. ASSUME NEW p \in Procs, Start(p) \/ Crash(p) PROVE PastInv'
  BY <1>2, FreshPast, OthersPast DEF PastInv
<1>3. CASE Meddle
  <2>1. /\ UNCHANGED <<disk, durable, frameVars, controlVars, born, author, touched>>
        /\ disturbed' = TRUE
    BY <1>3 DEF Meddle, storeVars
  <2>2. ASSUME NEW p \in Procs PROVE PastAt(p)'
    <3>1. PastAt(p)
      BY DEF PastInv
    <3>2. MadeAt(p)' /\ AuthorAt(p)' /\ RetryAt(p)' /\ ReportAt(p)' /\ RefusedAt(p)'
      BY <2>1, <3>1
         DEF PastAt, MadeAt, AuthorAt, RetryAt, ReportAt, RefusedAt, At, frameVars, controlVars
    <3>3. BornAt(p)' /\ VerifiedAt(p)'
      BY <2>1, <3>1 DEF PastAt, BornAt, VerifiedAt, frameVars, controlVars
    <3> QED BY <3>2, <3>3 DEF PastAt
  <2> QED BY <2>1, <2>2 DEF PastInv, BornEntries, DeployedIsVerified
<1>4. CASE PowerLoss
  <2>1. /\ disk' \in durable /\ durable' = {disk'} /\ born' = born /\ disturbed' = TRUE
        /\ touched' = {}
    BY <1>4 DEF PowerLoss, LosePower, Commit
  <2>2. \A p \in Procs : pc'[p] = "idle" /\ made'[p] = {} /\ result'[p] = "none"
    BY <1>4 DEF PowerLoss
  <2>3. ASSUME NEW p \in Procs PROVE PastAt(p)'
    BY <2>1, <2>2
       DEF PastAt, MadeAt, BornAt, AuthorAt, RetryAt, ReportAt, RefusedAt, VerifiedAt, At, Holding,
           Building, Removing, Assembled, Refusals
  <2>4. BornEntries'
    BY <2>1 DEF PastInv, BornEntries, IsDeployed
  <2> QED BY <2>1, <2>3, <2>4 DEF PastInv, DeployedIsVerified
<1>5. CASE RemoveState
  <2>1. /\ disk' = NoSnapshot /\ durable' = {NoSnapshot}
        /\ UNCHANGED <<frameVars, controlVars, born, disturbed, touched>>
    BY <1>5 DEF RemoveState, Commit
  <2>2. \A p \in Procs : ~Critical(p)
    BY <1>5, ValueAssumption DEF RemoveState, MutualExclusion
  <2>3. ASSUME NEW p \in Procs PROVE PastAt(p)'
    BY <2>1, <2>2
       DEF PastInv, PastAt, Critical, MadeAt, BornAt, AuthorAt, RetryAt, ReportAt, RefusedAt,
           VerifiedAt, At, Holding, Building, Removing, Assembled, frameVars, controlVars
  <2> QED BY <2>1, <2>3 DEF PastInv, BornEntries, IsDeployed, DeployedIsVerified
<1>6. CASE UNCHANGED vars
  BY <1>6
     DEF vars, storeVars, hostVars, frameVars, controlVars, historyVars, PastInv, PastAt, MadeAt,
         BornAt, AuthorAt, RetryAt, ReportAt, RefusedAt, VerifiedAt, At, BornEntries,
         DeployedIsVerified, InventoryMatches, RoutingReady
<1> QED BY <1>1, <1>2, <1>3, <1>4, <1>5, <1>6 DEF Next

(* Everything together, for the theorems.                                   *)
LEMMA PastInvariant == Spec => [](TypeInv /\ MutualExclusion /\ IInv /\ PastInv)
<1>1. Init => PastInv
  BY TopologyAssumption, SomeTopoType
     DEF Init, PastInv, PastAt, MadeAt, BornAt, AuthorAt, RetryAt, ReportAt, RefusedAt, VerifiedAt,
         At, Holding, Building, Removing, Assembled, Refusals, BornEntries, IsDeployed,
         DeployedIsVerified
<1> QED BY <1>1, PastStep, JournalInvariant, PTL DEF Spec

(* Whatever saves failed or invocations died: a visible "deployed" entry    *)
(* means that the topology is up, unless someone else changed the kernel    *)
(* since it was verified (lifecycle.py:249-284).                            *)
THEOREM DeployedIsTrue == Spec => []DeployedIsVerified
<1>1. PastInv => DeployedIsVerified
  BY DEF PastInv
<1> QED BY <1>1, PastInvariant, PTL

(* What an invocation reports as deployed or destroyed survives a power     *)
(* loss.                                                                    *)
THEOREM SuccessSurvives == Spec => []SuccessIsDurable
<1>1. PastInv => SuccessIsDurable
  BY DEF PastInv, PastAt, ReportAt, SuccessIsDurable
<1> QED BY <1>1, PastInvariant, PTL

(* deploy and destroy that refuse have changed nothing at all.              *)
THEOREM RefusalsAreHarmless == Spec => []RefusalTouchesNothing
<1>1. PastInv => RefusalTouchesNothing
  BY DEF PastInv, PastAt, RefusedAt, RefusalTouchesNothing
<1> QED BY <1>1, PastInvariant, PTL

(* Namespaces and pairs are changed only under a durable transient entry of *)
(* the very invocation that changes them, and only names it covers.         *)
THEOREM WriteAheadAlways == Spec => WriteAhead
<1>1. TypeInv /\ IInv /\ PastInv => JournalledStep
  <2> SUFFICES ASSUME TypeInv, IInv, PastInv, NEW p \in Procs, Advance(p),
                      <<phase, veth>>' # <<phase, veth>>
               PROVE  /\ author = p
                      /\ \A d \in durable : Transient(d) /\ d.topo = topo[p]
                      /\ \A n \in Namespaces : phase'[n] # phase[n] => n \in NodesOf[topo[p]]
    BY DEF JournalledStep
  <2> USE DEF At
  <2>1. CreateNamespace(p) \/ CreateBridge(p) \/ CreateVeth(p) \/ ConfigureNode(p)
          \/ RollbackNamespace(p) \/ DestroyNamespace(p)
    BY HostActions DEF hostVars, StartRouting, RollbackRouting, StopLeftovers, DestroyRouting
  <2>2. pc[p] \in Building \cup Removing
    BY <2>1
       DEF CreateNamespace, CreateBridge, CreateVeth, ConfigureNode, RollbackNamespace,
           DestroyNamespace, Building, Removing
  <2>3. \A d \in durable : Transient(d) /\ d.topo = topo[p]
    BY <2>2, OwnEntry DEF IInv, JournalAt, Transient, Statuses
  <2>4. author = p
    BY <2>2, <2>3 DEF PastInv, PastAt, AuthorAt, Holding, TypeInv, TypeOK, StoreType
  <2>5. PICK n \in NodesOf[topo[p]] \cup {Root} :
          \A m \in Namespaces \ {n} : phase'[m] = phase[m]
    <3> USE TopologyAssumption DEF TypeInv, TypeOK, HostType, ControlType, FrameType, LoopItems
    <3>1. CASE CreateNamespace(p) \/ CreateBridge(p) \/ ConfigureNode(p)
      BY <3>1 DEF CreateNamespace, CreateBridge, ConfigureNode
    <3>2. CASE CreateVeth(p)
      BY <3>2 DEF CreateVeth
    <3>3. CASE RollbackNamespace(p)
      BY <3>3 DEF RollbackNamespace, RemoveNamespace, DropNamespace, PastInv, PastAt, MadeAt
    <3>4. CASE DestroyNamespace(p)
      BY <3>4 DEF DestroyNamespace, RemoveNamespace, DropNamespace
    <3> QED BY <2>1, <3>1, <3>2, <3>3, <3>4
  <2> QED BY <2>3, <2>4, <2>5, ValueAssumption
<1> QED BY <1>1, PastInvariant, PTL DEF WriteAhead

(* A namespace nslab did not create is deleted only under a name nslab had  *)
(* created for the journalled deployment.                                   *)
THEOREM ForeignIsSpared == Spec => ForeignSpared
<1>1. TypeInv /\ IInv /\ PastInv => ForeignSparedStep
  <2> SUFFICES ASSUME TypeInv, IInv, PastInv, NEW p \in Procs, NEW n \in Namespaces, Advance(p),
                      phase[n] # "absent", phase'[n] = "absent"
               PROVE  n \in born
    BY DEF ForeignSparedStep
  <2> USE DEF At, TypeInv, TypeOK, HostType
  <2>1. CASE CreateNamespace(p) \/ CreateBridge(p) \/ CreateVeth(p) \/ ConfigureNode(p)
    BY <2>1, TopologyAssumption
       DEF CreateNamespace, CreateBridge, CreateVeth, ConfigureNode, LoopItems
  <2>2. CASE StartRouting(p) \/ RollbackRouting(p) \/ StopLeftovers(p) \/ DestroyRouting(p)
    BY <2>2 DEF StartRouting, RollbackRouting, StopLeftovers, DestroyRouting
  <2>3. CASE RollbackNamespace(p)
    <3>1. n \in made[p]
      BY <2>3 DEF RollbackNamespace, RemoveNamespace, DropNamespace, PastInv, PastAt, MadeAt
    <3> QED BY <2>3, <3>1 DEF RollbackNamespace, PastInv, PastAt, BornAt, Building
  <2>4. CASE DestroyNamespace(p)
    <3>1. n \in NodesOf[topo[p]]
      BY <2>4 DEF DestroyNamespace, RemoveNamespace, DropNamespace, LoopItems
    <3> QED BY <2>4, <3>1 DEF DestroyNamespace, PastInv, PastAt, BornAt, Removing
  <2> QED BY <2>1, <2>2, <2>3, <2>4, HostActions DEF hostVars
<1> QED BY <1>1, PastInvariant, PTL DEF ForeignSpared

(* The entry of an interrupted command is moved on by its writer only.      *)
THEOREM InterruptedEntriesStay == Spec => InterruptedStays
<1>1. TypeInv /\ IInv /\ PastInv => InterruptedStep
  <2> SUFFICES ASSUME TypeInv, IInv, PastInv, NEW p \in Procs, Advance(p), Transient(disk),
                      disk' # disk
               PROVE  author = p
    BY DEF InterruptedStep
  <2> USE DEF At
  <2>1. ~JournalDeploying(p)
    BY DEF JournalDeploying, IInv, JournalAt, Transient
  <2>2. ~JournalDestroying(p)
    BY OwnEntry DEF JournalDestroying, IInv, JournalAt, Transient, Statuses
  <2>3. pc[p] \in Holding
    BY <2>1, <2>2, StoreActions
       DEF storeVars, JournalDeployed, RollbackState, RollbackRetry, DeleteState, DeleteRetry,
           Holding, Building, Removing
  <2> QED BY <2>3 DEF PastInv, PastAt, AuthorAt
<1> QED BY <1>1, PastInvariant, PTL DEF InterruptedStays

(***************************************************************************)
(* Errors have a cause: how far an invocation that met no fault has come.  *)
(***************************************************************************)

(* Nothing of a build that failed: no half-made pair, no torn runtime.      *)
Whole == /\ frr # NoRuntime => frr.status # "torn"
         /\ \A l \in Links : Root \notin veth[l]
WholeEntries == \A d \in durable : IsDeployed(d) => Whole
WholeAt(p) == pc[p] = "journal_deployed" => Whole

(* A build without faults has made what it is through with, and no more.    *)
Plain(n, t) == IF n \in BridgesOf[t] THEN "bridged" ELSE "bare"
PhasesAt(p) == \A n \in NodesOf[topo[p]] :
  /\ pc[p] = "journal_deploying" => phase[n] = "absent"
  /\ pc[p] = "create_namespaces" => phase[n] = IF n \in todo[p] THEN "absent" ELSE "bare"
  /\ pc[p] = "create_bridges" => phase[n] = IF n \in todo[p] THEN "bare" ELSE Plain(n, topo[p])
  /\ pc[p] = "create_veths" => phase[n] = Plain(n, topo[p])
  /\ pc[p] = "configure" => phase[n] = IF n \in todo[p] THEN Plain(n, topo[p]) ELSE "ready"
  /\ pc[p] \in {"start_routing", "verify"} => phase[n] = "ready"
PairsAt(p) == \A l \in LinksOf[topo[p]] :
  /\ pc[p] \in {"create_namespaces", "create_bridges"} => veth[l] = {}
  /\ pc[p] = "create_veths" => veth[l] = IF l \in todo[p] THEN {} ELSE Ends[l]
  /\ pc[p] \in {"configure", "start_routing", "verify"} => veth[l] = Ends[l]
RuntimeAt(p) ==
  /\ pc[p] \in {"create_namespaces", "create_bridges", "create_veths", "configure", "start_routing"} =>
       frr = NoRuntime
  /\ pc[p] = "verify" => RoutingReady(topo[p])

(* A removal without faults has nothing in its way.                         *)
EmptiedAt(p) ==
  /\ pc[p] = "destroy_routing" => ~RuntimeRefuses(topo[p])
  /\ pc[p] \in {"destroy_routing", "destroy_namespaces"} =>
       ~bad[p] /\ \A l \in Links : Root \notin veth[l]
  /\ pc[p] = "destroy_namespaces" => \A n \in NodesOf[topo[p]] \ todo[p] : phase[n] = "absent"

Recovering == {"reconcile", "rollback_routing", "rollback_namespaces", "rollback_state",
               "rollback_retry", "delete_retry"}
CleanAt(p) == p \notin faulted =>
  /\ pc[p] \notin Recovering /\ result[p] # "failed"
  /\ PhasesAt(p) /\ PairsAt(p) /\ RuntimeAt(p) /\ EmptiedAt(p)

CleanInv == mishaps["removal"] = 0 => WholeEntries /\ \A p \in Procs : WholeAt(p) /\ CleanAt(p)

(* Who has met a fault: an invocation decides that of itself only, and for  *)
(* as long as it runs.                                                      *)
LEMMA FaultedStep ==
  ASSUME TypeInv, NEW p \in Procs, Advance(p) \/ Start(p) \/ Crash(p)
  PROVE  /\ \A q \in Procs \ {p} : q \in faulted' <=> q \in faulted
         /\ p \in faulted /\ p \notin faulted' => pc'[p] = "idle" /\ result'[p] = "none"
<1> USE DEF Fault, NoFault, TypeInv, TypeOK, ControlType, FlowType
<1>1. CASE Start(p) \/ Acquire(p) \/ LockRefused(p) \/ Unlock(p)
  BY <1>1 DEF Start, Acquire, LockRefused, Unlock
<1>2. CASE Crash(p) \/ Exit(p)
  BY <1>2 DEF Crash, Exit, Forget
<1>3. CASE DeployLoad(p) \/ Compare(p) \/ Preflight(p) \/ JournalDeploying(p) \/ EndStage(p)
  BY <1>3 DEF DeployLoad, Compare, Preflight, JournalDeploying, EndStage
<1>4. CASE CreateNamespace(p) \/ CreateBridge(p) \/ CreateVeth(p) \/ ConfigureNode(p)
  BY <1>4 DEF CreateNamespace, CreateBridge, CreateVeth, ConfigureNode
<1>5. CASE StartRouting(p) \/ Verify(p) \/ JournalDeployed(p) \/ Reconcile(p)
  BY <1>5 DEF StartRouting, Verify, JournalDeployed, Reconcile
<1>6. CASE RollbackRouting(p) \/ RollbackNamespace(p) \/ RollbackInventory(p)
  BY <1>6 DEF RollbackRouting, RollbackNamespace, RollbackInventory
<1>7. CASE RollbackState(p) \/ RollbackRetry(p)
  BY <1>7 DEF RollbackState, RollbackRetry
<1>8. CASE DestroyLoad(p) \/ DestroyAbsent(p) \/ StopLeftovers(p) \/ JournalDestroying(p)
  BY <1>8 DEF DestroyLoad, DestroyAbsent, StopLeftovers, JournalDestroying
<1>9. CASE DestroyRouting(p) \/ DestroyNamespace(p) \/ DestroyInventory(p)
  BY <1>9 DEF DestroyRouting, DestroyNamespace, DestroyInventory
<1>10. CASE DeleteState(p) \/ DeleteRetry(p)
  BY <1>10 DEF DeleteState, DeleteRetry
<1> QED
  BY <1>1, <1>2, <1>3, <1>4, <1>5, <1>6, <1>7, <1>8, <1>9, <1>10 DEF Advance

(* Only the step at hand changes what an invocation claims of itself.       *)
LEMMA OthersClean ==
  ASSUME TypeInv, MutualExclusion, NEW p \in Procs, NEW q \in Procs \ {p}, WholeAt(q), CleanAt(q),
         Advance(p) \/ Start(p) \/ Crash(p)
  PROVE  WholeAt(q)' /\ CleanAt(q)'
<1>1. /\ pc'[q] = pc[q] /\ todo'[q] = todo[q] /\ topo'[q] = topo[q] /\ bad'[q] = bad[q]
      /\ result'[q] = result[q]
  BY Locality DEF TypeInv
<1>2. q \in faulted' <=> q \in faulted
  BY FaultedStep
<1>3. CASE Critical(q)
  <2>1. UNCHANGED <<phase, veth, frr>>
    BY <1>3, OthersStandBack
  <2>2. WholeAt(q)'
    BY <1>1, <2>1 DEF WholeAt, Whole
  <2>3. PhasesAt(q)' <=> PhasesAt(q)
    BY <1>1, <2>1 DEF PhasesAt, Plain
  <2>4. PairsAt(q)' <=> PairsAt(q)
    BY <1>1, <2>1 DEF PairsAt
  <2>5. (RuntimeAt(q)' <=> RuntimeAt(q)) /\ (EmptiedAt(q)' <=> EmptiedAt(q))
    BY <1>1, <2>1 DEF RuntimeAt, EmptiedAt, RoutingReady, RuntimeRefuses
  <2> QED
    BY <1>1, <1>2, <2>2, <2>3, <2>4, <2>5 DEF CleanAt
<1>4. CASE ~Critical(q)
  <2>1. pc'[q] \in {"idle", "queued", "done"}
    BY <1>1, <1>4 DEF Critical
  <2> QED
    BY <1>1, <1>2, <2>1 DEF WholeAt, CleanAt, Recovering, PhasesAt, PairsAt, RuntimeAt, EmptiedAt
<1> QED
  BY <1>3, <1>4

(* What is verified is whole, for no other link or runtime is live.         *)
LEMMA VerifiedIsWhole ==
  ASSUME TypeInv, Kernel, NEW t \in Topos, NEW s \in Statuses, Covers(Entry(t, s)),
         InventoryMatches(t), RoutingReady(t)
  PROVE  Whole
<1>1. frr # NoRuntime => frr.topo = t /\ t \in Routed
  BY EntryFields DEF Covers, Kernel
<1>2. frr # NoRuntime => frr.status # "torn"
  BY <1>1, EntryFields DEF RoutingReady
<1>3. ASSUME NEW l \in Links PROVE Root \notin veth[l]
  <2>1. CASE l \in LinksOf[t]
    BY <2>1, TopologyAssumption, ValueAssumption DEF InventoryMatches
  <2>2. CASE l \notin LinksOf[t]
    BY <2>2, EntryFields DEF Covers
  <2> QED BY <2>1, <2>2
<1> QED BY <1>2, <1>3 DEF Whole

(* Only a build and a removal make halves, and no "deployed" entry is left  *)
(* by then.                                                                 *)
LEMMA WholeStep ==
  ASSUME TypeInv, TypeInv', IInv, BornEntries, NEW p \in Procs, PastAt(p), mishaps["removal"] = 0,
         WholeEntries, WholeAt(p), Advance(p)
  PROVE  WholeEntries' /\ WholeAt(p)'
<1> USE DEF TypeInv, TypeOK, StoreType, ControlType, FrameType, At
<1>1. \A s \in Statuses : IsDeployed(Entry(topo[p], s)) <=> s = "deployed"
  BY OwnEntry DEF IsDeployed
<1>2. ~IsDeployed(NoSnapshot)
  BY DEF IsDeployed
<1>3. UNCHANGED hostVars => (Whole' <=> Whole)
  BY DEF hostVars, Whole
<1>4. WholeEntries'
  <2>1. CASE JournalDeployed(p)
    BY <2>1, <1>3 DEF JournalDeployed, WholeAt, WholeEntries
  <2>2. CASE JournalDeploying(p) \/ JournalDestroying(p)
    <3>1. UNCHANGED hostVars /\ \E s \in {"deploying", "destroying"} :
            durable' \subseteq durable \cup {Entry(topo[p], s)}
      BY <2>2, SaveEffect DEF JournalDeploying, JournalDestroying
    <3> QED BY <3>1, <1>1, <1>3 DEF WholeEntries, Statuses
  <2>3. CASE RollbackState(p) \/ RollbackRetry(p) \/ DeleteState(p) \/ DeleteRetry(p)
    <3>1. UNCHANGED hostVars /\ durable' \subseteq durable \cup {NoSnapshot}
      BY <2>3, DeleteEffect
         DEF RollbackState, RollbackRetry, DeleteState, DeleteRetry, Untouched, storeVars
    <3> QED BY <3>1, <1>2, <1>3 DEF WholeEntries
  <2>4. CASE UNCHANGED storeVars /\ UNCHANGED hostVars
    BY <2>4, <1>3 DEF WholeEntries, storeVars
  <2>5. CASE UNCHANGED storeVars /\ hostVars' # hostVars
    <3>1. CASE pc[p] \in Building \cup Removing
      <4>1. \A d \in durable : ~IsDeployed(d)
        BY <3>1, <1>1 DEF IInv, JournalAt, Statuses
      <4> QED BY <2>5, <4>1 DEF WholeEntries, storeVars
    <3>2. CASE StopLeftovers(p)
      <4>1. \A d \in durable : ~IsDeployed(d)
        BY <3>2 DEF StopLeftovers, PastAt, VerifiedAt, BornEntries
      <4> QED BY <2>5, <4>1 DEF WholeEntries, storeVars
    <3> QED
      BY <2>5, <3>1, <3>2, HostActions
         DEF Building, Removing, CreateNamespace, CreateBridge, CreateVeth, ConfigureNode, StartRouting,
             RollbackRouting, RollbackNamespace, DestroyRouting, DestroyNamespace
  <2> QED BY <2>1, <2>2, <2>3, <2>4, <2>5, StoreActions
<1>5. WholeAt(p)'
  <2>1. CASE Verify(p)
    <3>1. Covers(Entry(topo[p], "deploying"))
      BY <2>1 DEF Verify, IInv, JournalAt, Building
    <3>2. InventoryMatches(topo[p]) /\ RoutingReady(topo[p]) => Whole
      BY <3>1, VerifiedIsWhole DEF IInv, Statuses
    <3> QED
      BY <2>1, <3>2, <1>3 DEF Verify, WholeAt, RollBack, GotoWith, Goto, FlowType
  <2>2. CASE ~Verify(p)
    <3>1. pc'[p] # "journal_deployed"
      BY <2>2, ZenonT(40)
         DEF Advance, FlowType, Goto, GotoWith, Done, Finish, Fails, RollBack, Destroyed, Forget,
             Acquire, LockRefused, Unlock, Exit, DeployLoad, Compare, Preflight,
             JournalDeploying, EndStage, CreateNamespace, CreateBridge, CreateVeth, ConfigureNode,
             StartRouting, JournalDeployed, Reconcile, RollbackRouting, RollbackNamespace,
             RollbackInventory, RollbackState, RollbackRetry, DestroyLoad, DestroyAbsent,
             StopLeftovers, JournalDestroying, DestroyRouting, DestroyNamespace,
             DestroyInventory, DeleteState, DeleteRetry
    <3> QED BY <3>1 DEF WholeAt
  <2> QED BY <2>1, <2>2
<1> QED BY <1>4, <1>5

(* A step that ends where nothing but the outcome is claimed.               *)
Unclaimed == {"idle", "queued", "unlock", "done", "deploy_load", "compare", "preflight", "destroy_load",
              "destroy_absent", "stop_leftovers", "journal_destroying", "delete_state",
              "journal_deployed"}

(* The first loops of a build find nothing in their way.                    *)
LEMMA CleanBuild ==
  ASSUME TypeInv, IInv, NEW p \in Procs, CleanAt(p), p \notin faulted, p \notin faulted',
         EndStage(p) \/ CreateNamespace(p) \/ CreateBridge(p) \/ CreateVeth(p) \/ ConfigureNode(p)
  PROVE  CleanAt(p)'
<1> USE DEF TypeInv, TypeOK, HostType, ControlType, FrameType, FlowType, LoopItems, At, frameVars, hostVars,
            Goto, GotoWith, Done, Fault, NoFault, Recovering
<1> DEFINE t == topo[p]
<1>0. /\ pc[p] \notin Recovering /\ result[p] # "failed"
      /\ PhasesAt(p) /\ PairsAt(p) /\ RuntimeAt(p) /\ EmptiedAt(p)
  BY DEF CleanAt
<1>1. t \in Topos /\ NodesOf[t] \subseteq Namespaces /\ BridgesOf[t] \subseteq NodesOf[t]
        /\ LinksOf[t] \subseteq Links /\ \A l \in LinksOf[t] : Ends[l] \subseteq NodesOf[t]
  BY TopologyAssumption
<1>2. CASE EndStage(p)
  <2>1. CASE pc[p] = "create_namespaces"
    <3>1. /\ pc'[p] = "create_bridges" /\ todo'[p] = BridgesOf[t] /\ todo[p] = {} /\ topo' = topo
          /\ UNCHANGED <<phase, veth, frr, result>>
      BY <1>2, <2>1 DEF EndStage
    <3>2. PhasesAt(p)' /\ PairsAt(p)' /\ RuntimeAt(p)' /\ EmptiedAt(p)'
      BY <1>0, <2>1, <3>1 DEF PhasesAt, PairsAt, RuntimeAt, EmptiedAt, Plain
    <3> QED BY <1>0, <3>1, <3>2 DEF CleanAt
  <2>2. CASE pc[p] = "create_bridges"
    <3>1. /\ pc'[p] = "create_veths" /\ todo'[p] = LinksOf[t] /\ todo[p] = {} /\ topo' = topo
          /\ UNCHANGED <<phase, veth, frr, result>>
      BY <1>2, <2>2 DEF EndStage
    <3>2. PhasesAt(p)' /\ PairsAt(p)' /\ RuntimeAt(p)' /\ EmptiedAt(p)'
      BY <1>0, <2>2, <3>1 DEF PhasesAt, PairsAt, RuntimeAt, EmptiedAt, Plain
    <3> QED BY <1>0, <3>1, <3>2 DEF CleanAt
  <2>3. CASE pc[p] = "create_veths"
    <3>1. /\ pc'[p] = "configure" /\ todo'[p] = NodesOf[t] /\ todo[p] = {} /\ topo' = topo
          /\ UNCHANGED <<phase, veth, frr, result>>
      BY <1>2, <2>3 DEF EndStage
    <3>2. PhasesAt(p)' /\ PairsAt(p)' /\ RuntimeAt(p)' /\ EmptiedAt(p)'
      BY <1>0, <2>3, <3>1 DEF PhasesAt, PairsAt, RuntimeAt, EmptiedAt, Plain
    <3> QED BY <1>0, <3>1, <3>2 DEF CleanAt
  <2>4. CASE pc[p] = "configure"
    <3>1. /\ pc'[p] = "start_routing" /\ todo[p] = {} /\ topo' = topo
          /\ UNCHANGED <<phase, veth, frr, result>>
      BY <1>2, <2>4 DEF EndStage
    <3>2. PhasesAt(p)' /\ PairsAt(p)' /\ RuntimeAt(p)' /\ EmptiedAt(p)'
      BY <1>0, <2>4, <3>1 DEF PhasesAt, PairsAt, RuntimeAt, EmptiedAt
    <3> QED BY <1>0, <3>1, <3>2 DEF CleanAt
  <2> QED BY <1>2, <2>1, <2>2, <2>3, <2>4 DEF EndStage
<1>3. CASE CreateNamespace(p)
  <2>1. PICK n \in todo[p] :
          \/ /\ phase[n] = "absent" /\ phase' = [phase EXCEPT ![n] = "bare"] /\ Done(p, n)
          \/ /\ IF phase[n] = "absent" THEN Fault(p) ELSE NoFault
             /\ UNCHANGED <<phase, made>>
    BY <1>3 DEF CreateNamespace
  <2>2. pc[p] = "create_namespaces" /\ n \in NodesOf[t] /\ phase[n] = "absent"
    BY <1>0, <1>3 DEF CreateNamespace, PhasesAt
  <2>3. phase' = [phase EXCEPT ![n] = "bare"] /\ Done(p, n)
    BY <2>1, <2>2
  <2>4. /\ pc'[p] = "create_namespaces" /\ todo'[p] = todo[p] \ {n} /\ topo' = topo
        /\ UNCHANGED <<veth, frr, result>>
    BY <1>3, <2>2, <2>3 DEF CreateNamespace
  <2>5. PhasesAt(p)'
    BY <1>0, <1>1, <2>2, <2>3, <2>4 DEF PhasesAt
  <2>6. PairsAt(p)' /\ RuntimeAt(p)' /\ EmptiedAt(p)'
    BY <1>0, <2>2, <2>4 DEF PairsAt, RuntimeAt, EmptiedAt
  <2> QED BY <1>0, <2>4, <2>5, <2>6 DEF CleanAt
<1>4. CASE CreateBridge(p)
  <2>1. PICK n \in todo[p] :
          \/ /\ phase[n] = "bare" /\ phase' = [phase EXCEPT ![n] = "bridged"] /\ Done(p, n)
          \/ IF phase[n] = "bare" THEN Fault(p) ELSE NoFault
    BY <1>4 DEF CreateBridge
  <2>2. pc[p] = "create_bridges" /\ n \in BridgesOf[t] /\ n \in NodesOf[t] /\ phase[n] = "bare"
    BY <1>0, <1>1, <1>4 DEF CreateBridge, PhasesAt
  <2>3. phase' = [phase EXCEPT ![n] = "bridged"] /\ Done(p, n)
    BY <2>1, <2>2
  <2>4. /\ pc'[p] = "create_bridges" /\ todo'[p] = todo[p] \ {n} /\ topo' = topo
        /\ UNCHANGED <<veth, frr, result>>
    BY <1>4, <2>2, <2>3 DEF CreateBridge
  <2>5. PhasesAt(p)'
    BY <1>0, <1>1, <2>2, <2>3, <2>4 DEF PhasesAt, Plain
  <2>6. PairsAt(p)' /\ RuntimeAt(p)' /\ EmptiedAt(p)'
    BY <1>0, <2>2, <2>4 DEF PairsAt, RuntimeAt, EmptiedAt
  <2> QED BY <1>0, <2>4, <2>5, <2>6 DEF CleanAt
<1>5. CASE CreateVeth(p)
  <2>1. PICK l \in todo[p] :
          \/ veth' = [veth EXCEPT ![l] = Ends[l]] /\ Done(p, l)
          \/ ~(veth[l] = {} /\ \A n \in Ends[l] : phase[n] # "absent")
    BY <1>5 DEF CreateVeth
  <2>2. pc[p] = "create_veths" /\ l \in LinksOf[t] /\ veth[l] = {}
    BY <1>0, <1>5 DEF CreateVeth, PairsAt
  <2>3. \A n \in Ends[l] : phase[n] # "absent"
    BY <1>0, <1>1, <2>2 DEF PhasesAt, Plain
  <2>4. veth' = [veth EXCEPT ![l] = Ends[l]] /\ Done(p, l)
    BY <2>1, <2>2, <2>3
  <2>5. /\ pc'[p] = "create_veths" /\ todo'[p] = todo[p] \ {l} /\ topo' = topo
        /\ UNCHANGED <<phase, frr, result>>
    BY <1>5, <2>2, <2>4 DEF CreateVeth
  <2>6. PairsAt(p)'
    BY <1>0, <1>1, <2>2, <2>4, <2>5 DEF PairsAt
  <2>7. PhasesAt(p)' /\ RuntimeAt(p)' /\ EmptiedAt(p)'
    BY <1>0, <2>2, <2>5 DEF PhasesAt, Plain, RuntimeAt, EmptiedAt
  <2> QED BY <1>0, <2>5, <2>6, <2>7 DEF CleanAt
<1>6. CASE ConfigureNode(p)
  <2>1. PICK n \in todo[p] :
          \/ phase' = [phase EXCEPT ![n] = "ready"] /\ Done(p, n)
          \/ ~Configurable(n, t)
    BY <1>6 DEF ConfigureNode
  <2>2. pc[p] = "configure" /\ n \in NodesOf[t] /\ phase[n] = Plain(n, t)
    BY <1>0, <1>6 DEF ConfigureNode, PhasesAt
  <2>3. Configurable(n, t)
    BY <1>0, <2>2 DEF PairsAt, Configurable, Plain
  <2>4. phase' = [phase EXCEPT ![n] = "ready"] /\ Done(p, n)
    BY <2>1, <2>3
  <2>5. /\ pc'[p] = "configure" /\ todo'[p] = todo[p] \ {n} /\ topo' = topo
        /\ UNCHANGED <<veth, frr, result>>
    BY <1>6, <2>2, <2>4 DEF ConfigureNode
  <2>6. PhasesAt(p)'
    BY <1>0, <1>1, <2>2, <2>4, <2>5 DEF PhasesAt, Plain
  <2>7. PairsAt(p)' /\ RuntimeAt(p)' /\ EmptiedAt(p)'
    BY <1>0, <2>2, <2>5 DEF PairsAt, RuntimeAt, EmptiedAt
  <2> QED BY <1>0, <2>5, <2>6, <2>7 DEF CleanAt
<1> QED BY <1>2, <1>3, <1>4, <1>5, <1>6

(* A removal finds the runtime its own, and namespaces that can be deleted. *)
LEMMA CleanRemoval ==
  ASSUME TypeInv, IInv, WholeEntries, NEW p \in Procs, CleanAt(p), p \notin faulted, p \notin faulted',
         \A d \in durable : Covers(d),
         JournalDestroying(p) \/ DestroyRouting(p) \/ DestroyNamespace(p) \/ DestroyInventory(p)
  PROVE  CleanAt(p)'
<1> USE DEF TypeInv, TypeOK, HostType, ControlType, FrameType, FlowType, LoopItems, At, frameVars, hostVars,
            Goto, GotoWith, Done, Fault, NoFault, Recovering
<1> DEFINE t == topo[p]
<1>0. /\ pc[p] \notin Recovering /\ result[p] # "failed" /\ EmptiedAt(p)
  BY DEF CleanAt
<1>1. t \in Topos /\ NodesOf[t] \subseteq Namespaces /\ LinksOf[t] \subseteq Links
  BY TopologyAssumption
<1>2. ASSUME pc'[p] \in {"destroy_routing", "destroy_namespaces"}, result'[p] # "failed", EmptiedAt(p)'
      PROVE  CleanAt(p)'
  BY <1>2 DEF CleanAt, PhasesAt, PairsAt, RuntimeAt
<1>3. CASE JournalDestroying(p)
  <2>1. /\ pc'[p] = "destroy_routing" /\ bad'[p] = FALSE /\ topo' = topo
        /\ UNCHANGED <<phase, veth, frr, result>>
    BY <1>3 DEF JournalDestroying, Journalled, Fails, Finish
  <2>2. disk = Entry(t, "deployed") /\ disk \in durable
    BY <1>3 DEF JournalDestroying, IInv, JournalAt, StoreType
  <2>3. IsDeployed(disk) /\ disk.topo = t
    BY <2>2, OwnEntry DEF IsDeployed, Statuses
  <2>4. Whole /\ Covers(disk)
    BY <2>2, <2>3 DEF WholeEntries
  <2>5. ~RuntimeRefuses(t) /\ \A l \in Links : Root \notin veth[l]
    BY <2>3, <2>4 DEF Whole, Covers, RuntimeRefuses
  <2>6. EmptiedAt(p)'
    BY <2>1, <2>5 DEF EmptiedAt, RuntimeRefuses
  <2> QED BY <1>0, <1>2, <2>1, <2>6
<1>4. CASE DestroyRouting(p)
  <2>1. PICK outcome \in {"ok", "refused", "error"} :
          /\ StopRouting(t, outcome)
          /\ IF outcome = "ok" THEN UNCHANGED bad ELSE SetBad(p)
          /\ IF outcome = "error" THEN Fault(p) ELSE NoFault
    BY <1>4 DEF DestroyRouting
  <2>2. outcome = "ok"
    BY <1>0, <1>4, <2>1 DEF DestroyRouting, EmptiedAt, StopRouting
  <2>3. /\ pc'[p] = "destroy_namespaces" /\ todo'[p] = NodesOf[t] /\ bad' = bad /\ topo' = topo
        /\ UNCHANGED <<phase, veth, result>>
    BY <1>4, <2>1, <2>2 DEF DestroyRouting
  <2>4. EmptiedAt(p)'
    BY <1>0, <1>4, <2>3 DEF DestroyRouting, EmptiedAt
  <2> QED BY <1>0, <1>2, <2>3, <2>4
<1>5. CASE DestroyNamespace(p)
  <2>1. PICK n \in todo[p], outcome \in {"ok", "missing", "error"} :
          /\ RemoveNamespace(n, outcome)
          /\ IF Gone(outcome) THEN UNCHANGED bad ELSE SetBad(p)
          /\ \/ Done(p, n) /\ (IF outcome = "error" THEN Fault(p) ELSE NoFault)
             \/ outcome = "error" /\ Fault(p)
    BY <1>5 DEF DestroyNamespace
  <2>2. outcome \in {"ok", "missing"} /\ Done(p, n) /\ bad' = bad
    BY <2>1 DEF Gone
  <2>3. pc[p] = "destroy_namespaces" /\ n \in NodesOf[t]
    BY <1>5 DEF DestroyNamespace
  <2>4. /\ pc'[p] = "destroy_namespaces" /\ todo'[p] = todo[p] \ {n} /\ topo' = topo
        /\ UNCHANGED <<frr, result>>
    BY <1>5, <2>2, <2>3 DEF DestroyNamespace
  <2>5. /\ \A m \in Namespaces : m = n \/ phase[m] = "absent" => phase'[m] = "absent"
        /\ \A l \in Links : Root \notin veth[l] => Root \notin veth'[l]
    BY <2>1, <2>2, <2>3, <1>1 DEF RemoveNamespace, DropNamespace
  <2>6. EmptiedAt(p)'
    BY <1>0, <1>1, <2>2, <2>3, <2>4, <2>5 DEF EmptiedAt
  <2> QED BY <1>0, <1>2, <2>4, <2>6
<1>6. CASE DestroyInventory(p)
  <2>1. CleanedUp(p)
    BY <1>0, <1>1, <1>6 DEF DestroyInventory, EmptiedAt, CleanedUp, InventoryIsAbsent
  <2>2. pc'[p] = "delete_state" /\ UNCHANGED result
    BY <1>6, <2>1 DEF DestroyInventory
  <2> QED BY <1>0, <2>2 DEF CleanAt, PhasesAt, PairsAt, RuntimeAt, EmptiedAt
<1> QED BY <1>3, <1>4, <1>5, <1>6

(* A build without faults begins where nothing is, finds no runtime in its  *)
(* way, and passes its verification.                                        *)
LEMMA CleanEnds ==
  ASSUME TypeInv, IInv, NEW p \in Procs, CleanAt(p), p \notin faulted, p \notin faulted',
         \A d \in durable : Covers(d),
         Preflight(p) \/ JournalDeploying(p) \/ StartRouting(p) \/ Verify(p) \/ JournalDeployed(p)
  PROVE  CleanAt(p)'
<1> USE DEF TypeInv, TypeOK, HostType, ControlType, FrameType, FlowType, LoopItems, At, frameVars, hostVars,
            Goto, GotoWith, Finish, Fails, Fault, NoFault, Recovering
<1> DEFINE t == topo[p]
<1>0. /\ pc[p] \notin Recovering /\ result[p] # "failed"
      /\ PhasesAt(p) /\ PairsAt(p) /\ RuntimeAt(p)
  BY DEF CleanAt
<1>1. CASE Preflight(p)
  <2>1. UNCHANGED <<phase, topo>>
    BY <1>1 DEF Preflight
  <2>2. \/ pc'[p] = "journal_deploying" /\ result' = result /\ InventoryIsAbsent(t)
        \/ pc'[p] = "unlock" /\ result'[p] = "OWNERSHIP_UNKNOWN"
    BY <1>1 DEF Preflight
  <2> QED BY <1>0, <2>1, <2>2
          DEF CleanAt, PhasesAt, PairsAt, RuntimeAt, EmptiedAt, InventoryIsAbsent
<1>2. CASE JournalDeploying(p)
  <2>1. /\ pc[p] = "journal_deploying" /\ pc'[p] = "create_namespaces" /\ todo'[p] = NodesOf[t]
        /\ topo' = topo /\ UNCHANGED <<phase, veth, frr, result>>
    BY <1>2 DEF JournalDeploying, Journalled
  <2>2. NothingLive
    BY <1>2, EmptyCovers DEF JournalDeploying, IInv, JournalAt, StoreType
  <2>3. PhasesAt(p)'
    BY <1>0, <2>1 DEF PhasesAt
  <2>4. PairsAt(p)'
    BY <2>1, <2>2, TopologyAssumption DEF PairsAt, NothingLive
  <2>5. RuntimeAt(p)' /\ EmptiedAt(p)'
    BY <2>1, <2>2 DEF RuntimeAt, EmptiedAt, NothingLive
  <2> QED BY <1>0, <2>1, <2>3, <2>4, <2>5 DEF CleanAt
<1>3. CASE StartRouting(p)
  <2>1. pc[p] = "start_routing" /\ ~RuntimeRefuses(t)
    BY <1>0, <1>3 DEF StartRouting, RuntimeAt, RuntimeRefuses
  <2>2. /\ pc'[p] = "verify" /\ (t \in Routed => frr' = Entry(t, "up")) /\ topo' = topo
        /\ UNCHANGED <<phase, veth, result>>
    BY <1>3, <2>1 DEF StartRouting
  <2>3. PhasesAt(p)' /\ PairsAt(p)'
    BY <1>0, <2>1, <2>2 DEF PhasesAt, PairsAt
  <2>4. RuntimeAt(p)' /\ EmptiedAt(p)'
    BY <2>2 DEF RuntimeAt, EmptiedAt, RoutingReady
  <2> QED BY <1>0, <2>2, <2>3, <2>4 DEF CleanAt
<1>4. CASE Verify(p)
  <2>1. InventoryMatches(t) /\ RoutingReady(t)
    BY <1>0, <1>4 DEF Verify, PhasesAt, PairsAt, RuntimeAt, InventoryMatches
  <2>2. pc'[p] = "journal_deployed" /\ result' = result
    BY <1>4, <2>1 DEF Verify
  <2> QED BY <1>0, <2>2 DEF CleanAt, PhasesAt, PairsAt, RuntimeAt, EmptiedAt
<1>5. CASE JournalDeployed(p)
  <2>1. pc'[p] = "unlock" /\ result'[p] = "deployed"
    BY <1>5 DEF JournalDeployed, WriteOutcomes
  <2> QED BY <2>1 DEF CleanAt, PhasesAt, PairsAt, RuntimeAt, EmptiedAt
<1> QED BY <1>1, <1>2, <1>3, <1>4, <1>5

LEMMA CleanStep ==
  ASSUME TypeInv, TypeInv', IInv, WholeEntries, NEW p \in Procs, PastAt(p), CleanAt(p),
         mishaps["removal"] = 0, Advance(p)
  PROVE  CleanAt(p)'
<1> USE DEF TypeInv, TypeOK, ControlType, FrameType, FlowType, At, frameVars,
            Goto, GotoWith, Finish, Fails, Fault, NoFault, Destroyed
<1>1. CASE p \in faulted'
  BY <1>1 DEF CleanAt
<1>2. ASSUME pc'[p] \in Unclaimed, result'[p] # "failed" PROVE CleanAt(p)'
  BY <1>2 DEF Unclaimed, CleanAt, Recovering, PhasesAt, PairsAt, RuntimeAt, EmptiedAt
<1>3. CASE p \in faulted /\ p \notin faulted'
  BY <1>2, <1>3, FaultedStep DEF Unclaimed
<1>4. CASE p \notin faulted /\ p \notin faulted'
  <2>1. \A d \in durable : Covers(d)
    BY DEF IInv
  <2>2. pc[p] \notin Recovering /\ result[p] # "failed"
    BY <1>4 DEF CleanAt
  <2>3. CASE Acquire(p) \/ LockRefused(p) \/ Unlock(p) \/ Exit(p)
    BY <1>2, <1>4, <2>2, <2>3 DEF Unclaimed, Acquire, LockRefused, Unlock, Exit, Forget
  <2>4. CASE DeployLoad(p) \/ Compare(p) \/ DestroyLoad(p) \/ DestroyAbsent(p)
    BY <1>2, <1>4, <2>2, <2>4 DEF Unclaimed, DeployLoad, Compare, DestroyLoad, DestroyAbsent
  <2>5. CASE StopLeftovers(p)
    <3>1. NothingLive
      BY <2>1, <2>5, EmptyCovers DEF StopLeftovers, PastAt, VerifiedAt, StoreType
    <3>2. pc'[p] \in Unclaimed /\ result'[p] # "failed"
      BY <1>4, <2>2, <2>5, <3>1
         DEF StopLeftovers, StopRouting, RuntimeRefuses, NothingLive, Unclaimed
    <3> QED BY <1>2, <3>2
  <2>6. CASE DeleteState(p)
    BY <1>2, <1>4, <2>2, <2>6 DEF DeleteState, DeleteOutcomes, Unclaimed
  <2>7. CASE EndStage(p) \/ CreateNamespace(p) \/ CreateBridge(p) \/ CreateVeth(p) \/ ConfigureNode(p)
    BY <1>4, <2>7, CleanBuild
  <2>8. CASE JournalDestroying(p) \/ DestroyRouting(p) \/ DestroyNamespace(p) \/ DestroyInventory(p)
    BY <1>4, <2>1, <2>8, CleanRemoval
  <2>9. CASE Preflight(p) \/ JournalDeploying(p) \/ StartRouting(p) \/ Verify(p) \/ JournalDeployed(p)
    BY <1>4, <2>1, <2>9, CleanEnds
  <2>10. CASE \/ Reconcile(p) \/ RollbackRouting(p) \/ RollbackNamespace(p) \/ RollbackInventory(p)
              \/ RollbackState(p) \/ RollbackRetry(p) \/ DeleteRetry(p)
    BY <2>2, <2>10
       DEF Recovering, Reconcile, RollbackRouting, RollbackNamespace, RollbackInventory,
           RollbackState, RollbackRetry, DeleteRetry
  <2> QED
    BY <2>3, <2>4, <2>5, <2>6, <2>7, <2>8, <2>9, <2>10 DEF Advance
<1> QED BY <1>1, <1>3, <1>4

LEMMA CleanNext ==
  TypeInv /\ TypeInv' /\ MutualExclusion /\ IInv /\ PastInv /\ CleanInv /\ [Next]_vars => CleanInv'
<1> SUFFICES ASSUME TypeInv, TypeInv', MutualExclusion, IInv, PastInv, CleanInv, [Next]_vars,
                    mishaps'["removal"] = 0
             PROVE  WholeEntries' /\ \A p \in Procs : WholeAt(p)' /\ CleanAt(p)'
  BY DEF CleanInv
<1>1. ASSUME mishaps["removal"] = 0
      PROVE  WholeEntries /\ \A p \in Procs : WholeAt(p) /\ CleanAt(p)
  BY <1>1 DEF CleanInv
<1>2. ASSUME NEW p \in Procs, Advance(p)
      PROVE  WholeEntries' /\ \A q \in Procs : WholeAt(q)' /\ CleanAt(q)'
  <2>1. mishaps["removal"] = 0
    BY <1>2, HasHistory DEF History
  <2>2. WholeEntries' /\ WholeAt(p)' /\ CleanAt(p)'
    BY <1>1, <1>2, <2>1, WholeStep, CleanStep DEF PastInv
  <2> QED BY <1>1, <1>2, <2>1, <2>2, OthersClean
<1>3. ASSUME NEW p \in Procs, Start(p) \/ Crash(p)
      PROVE  WholeEntries' /\ \A q \in Procs : WholeAt(q)' /\ CleanAt(q)'
  <2>1. mishaps["removal"] = 0
    BY <1>3, HasHistory DEF History
  <2>2. UNCHANGED <<storeVars, hostVars>>
    BY <1>3 DEF Start, Crash
  <2>3. WholeEntries'
    BY <1>1, <2>1, <2>2 DEF WholeEntries, Whole, storeVars, hostVars
  <2>4. WholeAt(p)' /\ CleanAt(p)'
    <3>1. CASE Start(p)
      <4>1. pc'[p] = "queued" /\ result' = result /\ faulted' = faulted
        BY <3>1 DEF Start, Goto, GotoWith, TypeInv, TypeOK, ControlType, FlowType
      <4> QED BY <1>1, <2>1, <4>1
              DEF WholeAt, CleanAt, Recovering, PhasesAt, PairsAt, RuntimeAt, EmptiedAt
    <3>2. CASE Crash(p)
      <4>1. pc'[p] = "idle" /\ result'[p] = "none"
        BY <3>2 DEF Crash, Forget, TypeInv, TypeOK, ControlType, FlowType
      <4> QED BY <4>1 DEF WholeAt, CleanAt, Recovering, PhasesAt, PairsAt, RuntimeAt, EmptiedAt
    <3> QED BY <1>3, <3>1, <3>2
  <2> QED BY <1>1, <1>3, <2>1, <2>3, <2>4, OthersClean
<1>4. CASE Meddle
  <2> USE DEF TypeInv, TypeOK, HostType, HistoryType, ControlType, FlowType
  <2>1. /\ mishaps["removal"] = 0 /\ UNCHANGED <<storeVars, frameVars, controlVars>>
        /\ faulted' = faulted \cup Running
    BY <1>4 DEF Meddle, Spend, Mishaps
  <2>2. Whole => Whole'
    BY <1>4, ValueAssumption DEF Meddle, Whole, DropNamespace, Runtimes
  <2>3. ASSUME NEW p \in Procs, p \notin faulted' PROVE CleanAt(p)'
    <3>1. p \notin faulted /\ pc'[p] = "idle" /\ result'[p] = result[p]
      BY <2>1, <2>3 DEF Running, Idle, controlVars
    <3> QED BY <1>1, <2>1, <3>1 DEF CleanAt, Recovering, PhasesAt, PairsAt, RuntimeAt, EmptiedAt
  <2>4. ASSUME NEW p \in Procs PROVE WholeAt(p)'
    BY <1>1, <2>1, <2>2 DEF WholeAt, controlVars
  <2>5. WholeEntries'
    BY <1>1, <2>1, <2>2 DEF WholeEntries, storeVars
  <2> QED BY <2>3, <2>4, <2>5 DEF CleanAt
<1>5. CASE PowerLoss
  <2> USE DEF TypeInv, TypeOK, HostType, HistoryType
  <2>1. /\ mishaps["removal"] = 0 /\ durable' \subseteq durable
        /\ \A p \in Procs : pc'[p] = "idle" /\ result'[p] = "none"
    BY <1>5 DEF PowerLoss, LosePower, Commit, Spend, Mishaps
  <2>2. Whole => Whole'
    BY <1>5, EntryFields, ValueAssumption DEF PowerLoss, Whole
  <2>3. WholeEntries'
    BY <1>1, <2>1, <2>2 DEF WholeEntries
  <2> QED BY <2>1, <2>3 DEF WholeAt, CleanAt, Recovering, PhasesAt, PairsAt, RuntimeAt, EmptiedAt
<1>6. CASE RemoveState
  BY <1>6 DEF RemoveState, Spend, Mishaps, TypeInv, TypeOK, HistoryType
<1>7. CASE UNCHANGED vars
  <2>1. mishaps' = mishaps /\ WholeEntries' = WholeEntries
    BY <1>7 DEF vars, WholeEntries, Whole, storeVars, hostVars
  <2>2. ASSUME NEW p \in Procs PROVE (WholeAt(p)' <=> WholeAt(p)) /\ (CleanAt(p)' <=> CleanAt(p))
    BY <1>7
       DEF vars, hostVars, frameVars, controlVars, WholeAt, Whole, CleanAt, PhasesAt, Plain, PairsAt,
           RuntimeAt, RoutingReady, EmptiedAt, RuntimeRefuses
  <2> QED BY <1>1, <2>1, <2>2
<1> QED BY <1>2, <1>3, <1>4, <1>5, <1>6, <1>7 DEF Next

(* Errors have a cause: unless the operator removed the journal file, only  *)
(* an invocation that met a failing call, or somebody else's interference,  *)
(* ends with an error (lifecycle.py:203-415, 653-873).                      *)
THEOREM CleanRunsSucceed == Spec => []CleanRunSucceeds
<1>1. Init => CleanInv
  BY DEF Init, CleanInv, WholeEntries, IsDeployed, WholeAt, CleanAt, Recovering, PhasesAt, PairsAt,
     RuntimeAt, EmptiedAt
<1>2. CleanInv => CleanRunSucceeds
  BY DEF CleanInv, CleanAt, CleanRunSucceeds
<1>3. Spec => []CleanInv
  BY <1>1, CleanNext, PastInvariant, PTL DEF Spec
<1> QED BY <1>2, <1>3, PTL

(***************************************************************************)
(* Lifecycle implements OwnershipJournal.                                  *)
(***************************************************************************)

(* What the refinement mapping calls assets, and the steps it leads to.     *)
Live == Built(ours, {l \in Links : veth[l] # {}}, IF frr = NoRuntime THEN {} ELSE {frr.topo})
AbstractStep == Journal!Next \/ UNCHANGED <<disk, durable, Live>>

NeverRemoved == mishaps["removal"] = 0

LEMMA RemovalNever ==
  ASSUME MaxMishaps["removal"] = 0
  PROVE  Spec => []NeverRemoved
<1>1. Init => NeverRemoved
  BY DEF Init, NeverRemoved, Mishaps
<1>2. TypeInv /\ NeverRemoved /\ [Next]_vars => NeverRemoved'
  <2> SUFFICES ASSUME TypeInv, NeverRemoved, [Next]_vars PROVE NeverRemoved'
    OBVIOUS
  <2>1. ASSUME NEW p \in Procs, Start(p) \/ Advance(p) \/ Crash(p) PROVE NeverRemoved'
    BY <2>1, HasHistory DEF History, NeverRemoved
  <2>2. CASE Meddle \/ PowerLoss \/ RemoveState
    BY <2>2 DEF Meddle, PowerLoss, RemoveState, Spend, Mishaps, NeverRemoved, TypeInv, TypeOK,
                HistoryType
  <2>3. CASE UNCHANGED vars
    BY <2>3 DEF vars, NeverRemoved
  <2> QED BY <2>1, <2>2, <2>3 DEF Next
<1> QED BY <1>1, <1>2, TypeInvariant, PTL DEF Spec

(* Assets go when what they stand for goes.                                 *)
LEMMA LiveShrinks ==
  ASSUME ours' \subseteq ours, \A l \in Links : veth'[l] # {} => veth[l] # {},
         frr' # NoRuntime => frr # NoRuntime /\ frr'.topo = frr.topo
  PROVE  Live' \subseteq Live
  BY DEF Live, Built

(* Nothing live, no assets.                                                 *)
LEMMA NothingLiveNoAssets ==
  ASSUME NothingLive
  PROVE  Live = {}
  BY DEF NothingLive, Live, Built

(* A step of an invocation that leaves the kernel alone leaves the assets.  *)
LEMMA LiveStays ==
  ASSUME TypeInv, Kernel, NEW p \in Procs, Advance(p) \/ Start(p) \/ Crash(p), UNCHANGED hostVars
  PROVE  UNCHANGED Live
<1>1. ours' = ours
  BY HasHistory DEF History, hostVars, Kernel, TypeInv, TypeOK, HistoryType
<1> QED BY <1>1 DEF Live, hostVars

-----------------------------------------------------------------------------

(* Steps on the kernel: Build under a deploying entry, rollback included,   *)
(* and Decay where destroy removes what is there.                           *)
LEMMA HostRefines ==
  ASSUME TypeInv, TypeInv', IInv, IInv', NeverRemoved, NeverRemoved', NEW p \in Procs, Advance(p),
         hostVars' # hostVars
  PROVE  AbstractStep
<1> USE DEF At
<1> DEFINE t == topo[p]
<1>1. t \in Topos /\ UNCHANGED storeVars
  BY HostActions
     DEF CreateNamespace, CreateBridge, CreateVeth, ConfigureNode, StartRouting, RollbackRouting,
         RollbackNamespace, StopLeftovers, DestroyRouting, DestroyNamespace, TypeInv, TypeOK,
         ControlType, FrameType
<1>2. CASE pc[p] \in Building
  <2>1. disk = Entry(t, "deploying") /\ durable = {disk} /\ disk # NoSnapshot
    BY <1>2, OwnEntry DEF IInv, JournalAt, Statuses
  <2>2. Covers(disk)' /\ Kernel' /\ disk' = disk /\ disk.topo = t
    BY <1>1, <2>1, EntryFields DEF IInv, NeverRemoved, storeVars
  <2>3. Live' \subseteq Built(NodesOf[t], LinksOf[t], {t} \cap Routed)
    BY <2>2 DEF Live, Built, Covers, Kernel
  <2>4. Journal!Build
    BY <1>1, <2>1, <2>2, <2>3, EntryFields DEF Journal!Build, Journal!Is, Live, storeVars
  <2> QED BY <2>4 DEF AbstractStep, Journal!Next
<1>3. CASE pc[p] \notin Building
  <2>1. DestroyRouting(p) \/ DestroyNamespace(p) \/ StopLeftovers(p)
    BY <1>3, HostActions
       DEF Building, CreateNamespace, CreateBridge, CreateVeth, ConfigureNode, StartRouting,
           RollbackRouting, RollbackNamespace
  <2>2. Live' \subseteq Live
    <3>1. History(p)
      BY HasHistory
    <3>2. CASE DestroyRouting(p) \/ StopLeftovers(p)
      BY <3>1, <3>2, OursStep, LiveShrinks, EntryFields
         DEF DestroyRouting, StopLeftovers, StopRouting, RuntimeRefuses
    <3>3. CASE DestroyNamespace(p)
      BY <3>1, <3>3, OursStep, LiveShrinks, TopologyAssumption
         DEF DestroyNamespace, RemoveNamespace, DropNamespace, LoopItems, TypeInv, TypeOK,
             HostType, ControlType, FrameType
    <3> QED BY <2>1, <3>2, <3>3
  <2>3. Journal!Decay
    BY <1>1, <2>2 DEF Journal!Decay, Live, storeVars
  <2> QED BY <2>3 DEF AbstractStep, Journal!Next
<1> QED BY <1>2, <1>3

(* A save or a delete that is visible is a write of the abstract journal.   *)
LEMMA WriteRefines ==
  ASSUME NEW new,
         \/ \E o \in WriteOutcomes : Save(new, o)
         \/ new = NoSnapshot /\ \E o \in DeleteOutcomes : Delete(o)
  PROVE  UNCHANGED storeVars \/ Journal!Write(new)
  BY DEF Save, Delete, InDoubt, Untouched, Commit, Linger, storeVars, Journal!Write

(* Steps on the file: Begin, Settle, BeginRemoval and Close.                *)
LEMMA StoreRefines ==
  ASSUME TypeInv, IInv, NeverRemoved, NEW p \in Procs, Advance(p), UNCHANGED hostVars,
         storeVars' # storeVars
  PROVE  AbstractStep
<1> USE DEF At
<1> DEFINE t == topo[p]
<1>1. t \in Topos /\ UNCHANGED Live
  BY LiveStays DEF IInv, TypeInv, TypeOK, ControlType, FrameType
<1>2. \A s \in Statuses : Entry(t, s) # NoSnapshot /\ Entry(t, s).status = s
  BY OwnEntry
<1>3. \A s, u : [Entry(t, s) EXCEPT !.status = u] = Entry(t, u)
  BY DEF Entry
<1>4. CASE JournalDeploying(p)
  <2>1. disk = NoSnapshot /\ Journal!Write(Entry(t, "deploying"))
    BY <1>4, WriteRefines DEF JournalDeploying, IInv, JournalAt
  <2>2. Journal!Begin(t)
    BY <1>1, <2>1 DEF Journal!Begin, Entry, Live
  <2> QED BY <1>1, <2>2 DEF AbstractStep, Journal!Next
<1>5. CASE JournalDeployed(p)
  <2>1. disk = Entry(t, "deploying") /\ Journal!Write(Entry(t, "deployed"))
    BY <1>5, OwnEntry, WriteRefines DEF JournalDeployed, Building
  <2>2. Journal!Settle
    BY <1>1, <1>2, <1>3, <2>1 DEF Journal!Settle, Journal!Is, Journal!Move, Live, Statuses
  <2> QED BY <2>2 DEF AbstractStep, Journal!Next
<1>6. CASE JournalDestroying(p)
  <2>1. disk = Entry(t, "deployed") /\ Journal!Write(Entry(t, "destroying"))
    BY <1>6, WriteRefines DEF JournalDestroying, IInv, JournalAt
  <2>2. Journal!BeginRemoval
    BY <1>1, <1>2, <1>3, <2>1 DEF Journal!BeginRemoval, Journal!Is, Journal!Move, Live, Statuses
  <2> QED BY <2>2 DEF AbstractStep, Journal!Next
<1>7. CASE RollbackState(p) \/ RollbackRetry(p) \/ DeleteState(p) \/ DeleteRetry(p)
  <2>1. Live = {}
    BY <1>7, NothingLiveNoAssets
       DEF RollbackState, RollbackRetry, DeleteState, DeleteRetry, IInv, ClearedAt, NeverRemoved
  <2>2. disk = Entry(t, "deploying") \/ disk = Entry(t, "destroying")
    BY <1>7, OwnEntry
       DEF RollbackState, RollbackRetry, DeleteState, DeleteRetry, RetrySafe, Building, Removing,
           Untouched
  <2>3. Journal!Write(NoSnapshot)
    BY <1>7, WriteRefines
       DEF RollbackState, RollbackRetry, DeleteState, DeleteRetry, Untouched
  <2>4. Journal!Close
    BY <1>1, <1>2, <2>1, <2>2, <2>3 DEF Journal!Close, Journal!Is, Live, Statuses
  <2> QED BY <2>4 DEF AbstractStep, Journal!Next
<1> QED BY <1>4, <1>5, <1>6, <1>7, StoreActions

(* Outside events take assets away, and a power loss picks an entry.        *)
LEMMA OutsideRefines ==
  ASSUME TypeInv, IInv, NeverRemoved', Meddle \/ PowerLoss \/ RemoveState
  PROVE  AbstractStep
<1> USE DEF TypeInv, TypeOK, HostType, HistoryType
<1>1. CASE Meddle
  <2>1. /\ \A l \in Links : veth'[l] = veth[l] \/ veth'[l] = {}
        /\ frr' # NoRuntime => frr # NoRuntime /\ frr'.topo = frr.topo
        /\ ours' \subseteq ours /\ UNCHANGED storeVars
    BY <1>1 DEF Meddle, DropNamespace, Runtimes
  <2>2. Journal!Decay
    BY <2>1, LiveShrinks DEF Journal!Decay, Live, storeVars
  <2> QED BY <2>2 DEF AbstractStep, Journal!Next
<1>2. CASE PowerLoss
  <2>1. /\ ours' = {} /\ \A l \in Links : veth'[l] = {}
        /\ frr' # NoRuntime => frr # NoRuntime /\ frr'.topo = frr.topo
        /\ disk' \in durable /\ durable' = {disk'}
    BY <1>2, EntryFields, ValueAssumption DEF PowerLoss, LosePower, Commit
  <2>2. Journal!PowerLoss
    BY <2>1, LiveShrinks DEF Journal!PowerLoss, Live
  <2> QED BY <2>2 DEF AbstractStep, Journal!Next
<1>3. CASE RemoveState
  BY <1>3 DEF RemoveState, Spend, Mishaps, NeverRemoved
<1> QED BY <1>1, <1>2, <1>3

(* Whatever fails, dies or interferes: the service is the abstract journal, *)
(* step by step or stuttering, as long as nobody removes the file by hand   *)
(* (lifecycle.py:147-415, 653-1047).                                        *)
THEOREM LifecycleImplementsJournal ==
  ASSUME MaxMishaps["removal"] = 0
  PROVE  Spec => ImplementsJournal
<1>1. Init => Journal!Init
  BY DEF Init, Journal!Init, Built
<1>2. TypeInv /\ TypeInv' /\ IInv /\ IInv' /\ NeverRemoved /\ NeverRemoved' /\ [Next]_vars
        => [Journal!Next]_(Journal!vars)
  <2> SUFFICES ASSUME TypeInv, TypeInv', IInv, IInv', NeverRemoved, NeverRemoved', [Next]_vars
               PROVE  AbstractStep
    BY DEF AbstractStep, Journal!vars, Live
  <2>1. ASSUME NEW p \in Procs, Advance(p) PROVE AbstractStep
    <3>1. CASE hostVars' # hostVars
      BY <2>1, <3>1, HostRefines
    <3>2. CASE UNCHANGED hostVars /\ storeVars' # storeVars
      BY <2>1, <3>2, StoreRefines
    <3>3. CASE UNCHANGED <<hostVars, storeVars>>
      BY <2>1, <3>3, LiveStays DEF IInv, AbstractStep, storeVars
    <3> QED BY <3>1, <3>2, <3>3
  <2>2. ASSUME NEW p \in Procs, Start(p) \/ Crash(p) PROVE AbstractStep
    BY <2>2, LiveStays DEF Start, Crash, IInv, AbstractStep, storeVars
  <2>3. CASE Meddle \/ PowerLoss \/ RemoveState
    BY <2>3, OutsideRefines
  <2>4. CASE UNCHANGED vars
    BY <2>4 DEF vars, storeVars, hostVars, historyVars, AbstractStep, Live
  <2> QED BY <2>1, <2>2, <2>3, <2>4 DEF Next
<1> QED
  BY <1>1, <1>2, JournalInvariant, RemovalNever, PTL DEF Spec, ImplementsJournal, Journal!Spec
-----------------------------------------------------------------------------
(* The abstract journal never lets go of a live resource: for any assets of *)
(* the topologies, whether or not they are those of Lifecycle.              *)
CONSTANTS AssetsOf, NoEntry
VARIABLES entry, memory, assets
Promise == INSTANCE OwnershipJournal

(* What a power loss may leave is always an entry, and what is on disk is    *)
(* among it (state.py:306-393).                                              *)
THEOREM JournalTypeCorrect ==
  ASSUME NoEntry \notin Promise!Entries
  PROVE  Promise!Spec => []Promise!TypeOK
<1>1. Promise!Init => Promise!TypeOK
  BY DEF Promise!Init, Promise!TypeOK
<1>2. Promise!TypeOK /\ [Promise!Next]_(Promise!vars) => Promise!TypeOK'
  <2> SUFFICES ASSUME Promise!TypeOK, [Promise!Next]_(Promise!vars) PROVE Promise!TypeOK'
    OBVIOUS
  <2> USE DEF Promise!TypeOK, Promise!Entries
  <2>1. ASSUME NEW new \in Promise!Entries \cup {NoEntry}, Promise!Write(new) PROVE Promise!TypeOK'
    BY <2>1 DEF Promise!Write
  <2>2. ASSUME NEW status \in {"deployed", "destroying"}, entry # NoEntry, Promise!Move(status)
        PROVE  Promise!TypeOK'
    <3>1. [entry EXCEPT !.status = status] \in Promise!Entries
      BY <2>2
    <3> QED BY <2>1, <2>2, <3>1 DEF Promise!Move
  <2>3. ASSUME NEW t \in Topos, Promise!Begin(t) PROVE Promise!TypeOK'
    BY <2>1, <2>3 DEF Promise!Begin
  <2>4. CASE Promise!Settle \/ Promise!BeginRemoval
    BY <2>2, <2>4 DEF Promise!Settle, Promise!BeginRemoval, Promise!Is
  <2>5. CASE Promise!Close
    BY <2>1, <2>5 DEF Promise!Close
  <2>6. CASE Promise!Build \/ Promise!Remove \/ Promise!Decay \/ UNCHANGED Promise!vars
    BY <2>6 DEF Promise!Build, Promise!Remove, Promise!Decay, Promise!vars
  <2>7. CASE Promise!PowerLoss
    BY <2>7 DEF Promise!PowerLoss
  <2> QED BY <2>3, <2>4, <2>5, <2>6, <2>7 DEF Promise!Next
<1> QED BY <1>1, <1>2, PTL DEF Promise!Spec

(* Whatever entry the machine comes back with after a power loss, it names   *)
(* every resource that is live: the entry is durable before the first one is *)
(* created and goes after the last one (lifecycle.py:203-211, 382-408).      *)
THEOREM JournalAccounts ==
  ASSUME NoEntry \notin Promise!Entries
  PROVE  Promise!Spec => []Promise!NoOrphans
<1>1. Promise!Init => Promise!NoOrphans
  BY DEF Promise!Init, Promise!NoOrphans, Promise!Accounts
<1>2. Promise!TypeOK /\ Promise!NoOrphans /\ [Promise!Next]_(Promise!vars) => Promise!NoOrphans'
  <2> SUFFICES ASSUME Promise!TypeOK, Promise!NoOrphans, [Promise!Next]_(Promise!vars) PROVE Promise!NoOrphans'
    OBVIOUS
  <2> USE DEF Promise!TypeOK, Promise!NoOrphans, Promise!Accounts
  <2>1. ASSUME NEW t \in Topos, Promise!Begin(t) PROVE Promise!NoOrphans'
    <3>1. assets = {}
      BY <2>1 DEF Promise!Begin
    <3> QED BY <2>1, <3>1 DEF Promise!Begin
  <2>2. CASE Promise!Build
    BY <2>2 DEF Promise!Build, Promise!Is
  <2>3. ASSUME NEW status \in {"deployed", "destroying"}, entry # NoEntry, Promise!Move(status),
               UNCHANGED assets
        PROVE  Promise!NoOrphans'
    <3> DEFINE new == [entry EXCEPT !.status = status]
    <3>1. new \in Promise!Entries /\ new.topo = entry.topo
      BY <2>3 DEF Promise!Entries
    <3>2. Promise!Accounts(new)
      BY <2>3, <3>1
    <3> QED BY <2>3, <3>2 DEF Promise!Move, Promise!Write
  <2>4. CASE Promise!Settle \/ Promise!BeginRemoval
    BY <2>3, <2>4 DEF Promise!Settle, Promise!BeginRemoval, Promise!Is
  <2>5. CASE Promise!Close
    BY <2>5 DEF Promise!Close
  <2>6. CASE Promise!Remove \/ Promise!Decay \/ Promise!PowerLoss \/ UNCHANGED Promise!vars
    BY <2>6 DEF Promise!Remove, Promise!Decay, Promise!PowerLoss, Promise!vars
  <2> QED BY <2>1, <2>2, <2>4, <2>5, <2>6 DEF Promise!Next
<1> QED BY <1>1, <1>2, JournalTypeCorrect, PTL DEF Promise!Spec
=============================================================================
