# A TLA+ model of nslab

nslab builds small network laboratories out of Linux network namespaces. One
command (`deploy`, `destroy`, `redeploy`, `inspect`, `exec`) is one process;
what survives it is the kernel's state, one JSON file per deployment that
journals ownership, and the files of the routing daemons. The program has no
server, so two things make it hard. What happens between processes and across
their deaths: a command that is killed half-way, a second command on the same
name, a save whose outcome nobody knows, a kernel that somebody else changes.
And what happens to a manifest on its way through the program: it is validated,
planned, turned into requests block by block, read back from the kernel, compared
with the plan twice by different code, stored and validated again, and all of
these have to agree.

This directory models both: the transactional lifecycle with its journal, the
journal's file operations and the lock; the creation of a veth pair, the
routing runtime and the execution of a command, each step by step under failures
and signals; and the path of a manifest to a verdict. Paths of code below are
relative to `src/src/nslab/`, those that begin with `docs/` to `src/`.

## 1. Inventory

| Component | State it keeps | Operations | Talks to | What is hard | What makes it correct | Model |
|---|---|---|---|---|---|---|
| Lifecycle service (`lifecycle.py`) | nothing of its own; the deployment's journal entry `deploying / deployed / destroying` | `deploy`, `destroy`, `redeploy`, with rollback, reconciliation, one delete retry | lock, store, backend, routing runtime (calls) | every call can fail, be interrupted or be the last one of the process; handlers run more failing calls | nothing live is ever unrecorded; `deployed` is the truth; refusals have no effects; foreign resources are spared | modelled |
| State store (`state.py`, `StateStore`) | `/var/lib/nslab/NAME.json` | `load`, `save`, `delete` | file system | interrupts between rename and directory sync, power loss, readers without a lock | the file is whole or absent; error codes say what is known about it | modelled |
| Deployment lock (`state.py`, `DeploymentLock`) | `flock` on `NAME.lock` | enter (poll to a deadline), exit | kernel | descriptors inherited by forked helpers, errors between open and lock, deadline | exclusion, no descriptor left, every waiter is answered | modelled |
| Manifest (`manifest.py`) | none | validate, normalize | cli, planner, snapshot | some hundred rules over fields and objects, and the kernel's own rules behind them | what is accepted can be deployed | partly |
| Planner (`planner.py`) | none | `compile_plan` | lifecycle, cli | tables inferred from VRFs, proxies turned into sysctls | total on what is accepted | modelled |
| Kernel backend (`backend/pyroute2.py`) | namespaces, links, addresses, sysctls | create and delete namespace, bridge, veth, configure, inventory, execute | kernel, NSPopen helpers | `create_veth` moves the ends one by one and has to find them again; nineteen ordered blocks of `configure_node`; decoding | a failing call leaves only what the plan names; no block undoes another; what was set is read back | partly |
| Traffic control (`tc.py`, `backend/tc_qdisc.py`) | none | convert and compare rates, sizes, delays | backend | rounding and 32-bit limits | conversion and comparison agree | partly |
| Inventory comparison (`backend/base.py`) | none | matches, absent, recorded identities | backend, store | defaults, what daemons and the kernel add | true of what was deployed, false after a change | modelled |
| Inspection (`inspector.py`) | none | status, differences, nodes to blame | comparison, store | judges the same state a second time | the two judgements agree | modelled |
| Snapshot validation (`snapshot.py`) | none | validate the stored manifest and identities | store, lifecycle | draws up the identities a second time | accepts what `lifecycle.py` writes | modelled |
| Routing runtime (`routing.py`) | marker, metadata and pid files, FRR processes | start, ready, stop | file system, processes | partial directories, pid reuse, another configuration's markers | only its own processes and files are touched; stop can finish what start began | partly |
| Command execution (`executor.py`, `_spawn_nspopen`) | a child in a namespace | exec | kernel, signals | signals while the helper is created or released | no signal lost, no helper left | modelled |
| Command line (`cli.py`) | signal handlers | choose a topology, run one command | all of the above | the topology of `--name` is read before the lock is taken | a stale choice is caught under the lock | partly |
| Fake backend, graph, completion, errors, naming, version | none | test double, rendering, text | - | - | - | not modelled |

A command runs like this: `cli._select_topology` picks a plan; the lifecycle
service takes the lock; it loads the journal and refuses, or writes a transient
entry (`deploying`, `destroying`), changes the kernel and the routing runtime
call by call, looks at the kernel again, and writes the final entry or erases
it. Failures roll a build back, or leave the transient entry, which every later
command refuses with `DEPLOYMENT_INTERRUPTED`.

## 2. Modules

| Module | Models | Composed with |
|---|---|---|
| `Lifecycle` | deploy, destroy, redeploy by several invocations, with kills, power loss, interference | EXTENDS `SnapshotStore`, implements `OwnershipJournal` |
| `OwnershipJournal` | the abstract promise: entry, what a power loss may leave of it, live assets | refined by `Lifecycle` (`ImplementsJournal`) |
| `SnapshotStore` | what `save()` and `delete()` promise: four outcomes and what each says of the file now and after a power loss | used by `Lifecycle`, implemented by `StateStore` |
| `StateStore` | the system calls of `save`, `delete`, `load`, interrupted or cut anywhere | its property `OutcomesAreTruthful` maps each call to one step of `SnapshotStore` |
| `DeploymentLock` | the polled `flock`, its deadline, descriptors and heirs | stands behind the variable `lock` of `Lifecycle` |
| `VethCreate` | one call of `create_veth` with lost answers, retries, interrupts and foreign names | stands behind `CreateVeth` and `Residues` of `Lifecycle` |
| `FrrRuntime` | `start` and `stop` of one deployment's FRR daemons, directory by directory and daemon by daemon | stands behind `frr` of `Lifecycle` |
| `ExecProcess` | `execute` and `_spawn_nspopen` with SIGINT and SIGTERM between any two steps | - |
| `Manifest` | the validators as predicates on a manifest | EXTENDed by |
| `Planner` | `compile_plan` | EXTENDed by |
| `Netns` | the kernel's namespace as the backend's requests change it (external) | EXTENDed by |
| `ConfigureNode` | the blocks of `configure_node`, each an operator from namespace to namespace | EXTENDed by |
| `Inventory` | the decoding of a namespace into the terms of a plan | EXTENDed by |
| `Comparison` | `inventory_matches_plan` | EXTENDed by |
| `Snapshot` | what `lifecycle.py` writes, what `snapshot.py` accepts | EXTENDed by |
| `Inspection` | status and differences of `inspect` | EXTENDed by |
| `Deployment` | one deploy of a manifest through all of these, and one change afterwards | - |
| `MCLifecycle`, `MCJournal`, `MCFrrRuntime`, `MCDeployment` | the instances TLC runs | |
| `Folding` | what a fold of requests over a set or a sequence keeps, for `Deployment_proofs` | - |
| `Lifecycle_proofs` (with `OwnershipJournal`), `StateStore_proofs`, `DeploymentLock_proofs`, `VethCreate_proofs`, `FrrRuntime_proofs`, `ExecProcess_proofs`, `Deployment_proofs` | theorems about the module of that name | |

Some modules hold, just before a definition, one variant of it with a plausible
fault (`RetryForever`, `KeepRun`, `MembersLast`, ...). No specification uses them;
`PROJECT.json` pairs each with the property that must notice it.

### Lifecycle

| Variable | Code |
|---|---|
| `disk`, `durable` | `NAME.json` as `load()` reads it; the entries that a power loss may bring back |
| `phase[n]` | a namespace: `absent`, created, bridge made, configured (as the inventory would compare it) |
| `veth[l]` | where the two ends of a link are; `Root` while they are still in the root namespace |
| `frr` | the routing runtime of this deployment: none, or a fingerprint with `up`, `part` (some of it), `torn` (a directory that has lost its marker) |
| `pc`, `todo` | position in the code and the rest of the loop over nodes or links |
| `cmd`, `plan`, `topo` | command; selected plan; plan of the current half (destroy works on the snapshot's) |
| `made`, `bad` | `created_namespaces`; `first_error is not None` or `cleanup_failed` |
| `result` | the code the command reports |
| `ours`, `born`, `author`, `disturbed`, `touched`, `faulted`, `mishaps` | history the properties read: namespaces nslab created, who wrote the transient entry, whether the kernel was changed since the last verification, who changed or failed anything, and the bounds |

Actions follow `lifecycle.py` call by call: `DeployLoad`, `Compare`,
`Preflight`, `JournalDeploying`, the loops `CreateNamespace`, `CreateBridge`,
`CreateVeth`, `ConfigureNode` joined by `EndStage`, `StartRouting`, `Verify`,
`JournalDeployed`, `Reconcile`; `RollbackRouting`, `RollbackNamespace`,
`RollbackInventory`, `RollbackState`, `RollbackRetry`; `DestroyLoad`,
`DestroyAbsent`, `StopLeftovers`, `JournalDestroying`, `DestroyRouting`,
`DestroyNamespace`, `DestroyInventory`, `DeleteState`, `DeleteRetry`. `Start`,
`Acquire`, `LockRefused`, `Unlock`, `Exit` are `cli.py` and the `with` blocks.
`Destroyed` is where `redeploy` goes on with its deploy half.

Each call has the outcomes the code tells apart. A failing backend call is taken
both before and after its effect, and `create_veth` may leave the pair at any
station on its way (`Residues`): the handlers must cope with all of them. A
kill during a call is that call's failing outcome followed by `Crash`; an
interrupt outside every `try` leaves the same state and is `Crash` too.
`Meddle`, `PowerLoss` and `RemoveState` are the environment.

Abstractions, and what they give up:

* A topology is a model value with its namespaces, bridges, links and whether
  it is routed. Link attributes, addresses, sysctls and interface ids are not
  represented here; `Deployment` has them. A configured node is `ready` and
  interference makes it `bare`.
  Nobody but nslab creates veth pairs in the model; recorded identities are the
  subject of `Deployment` (`Replace`).
* A snapshot is its topology and its status. `created_at` distinguishes two
  entries of one topology in the code; under the lock an entry that differs
  only there cannot appear while its writer runs.
* Deleting a namespace takes its veth ends along. A process still inside, as
  `exec` may leave one, would keep them: see the hazards in `PROJECT.json`.
* Loops visit their items in any order; the code's order is one of them.
* A manifest or snapshot that does not validate (`STATE_INVALID`, plan and
  manifest mismatch) is the failing outcome of the call that notices it.
  A missing file with `--name` alone is reported before any of this starts.

### StateStore and SnapshotStore

`StateStore` has one action per system call of `save` and `delete`. A directory
entry is the file it names, and a file knows whether its data was synced;
`entries` is what the entry may be after a power loss: rename and unlink add to
it, the directory fsync leaves only the current one. Files that were not synced
come back `Torn`. `Raise` goes through `_cleanup_temporary`; an error from the
rename on is classified (`RaiseClassified`), before it is `STATE_WRITE_FAILED`.
An unlocked `load()` opens and reads in two steps. The model is of a file system
that makes no promise about unsynced data or names.

`seen` and `kept` record the file as of the last return, and
`OutcomesAreTruthful` says that each call, seen from outside, was a step of
`SnapshotStore` with the outcome it reports. That is the only thing `Lifecycle`
assumes about the store.

### DeploymentLock

Time is counted in ticks to the deadline and to the end of the sleep. The lock
belongs to the open file description, so `holder` is released by `LOCK_UN`, or by
the last close: the process's own (`open`) or that of a forked helper that
inherited it (`heirs`; pyroute2's NSPopen servers fork without exec).
`Lifecycle` simplifies this to one variable that a kill resets; a helper that
outlives its holder only delays the next holder, which `LockRefused` covers.

### VethCreate

| Variable | Code |
|---|---|
| `pc`, `end` | the call `create_veth` is about to make, and the endpoint it is about |
| `dev` | the pair as the kernel has it: the place of each end (root namespace, node under its temporary name, node under its final one), ownership alias, MTU, up, discipline |
| `foreign`, `harmed`, `marked` | names in these places that other devices have; those of them nslab changed or deleted, and those it wrote its token on |
| `found` | the device behind the interface index in hand, ours or another's |
| `moved`, `renamed` | `moved_endpoints`, `renamed_endpoints` |
| `left` | retries until `deadline`, counted in intervals; a sleep may take longer |
| `cause` | what ended the attempt |
| `dirty` | faults that a property excuses: an alias the kernel ignored, a lost answer to a move or to `tc add`, a disturbed clean-up |

The actions are the calls in their order: `Lookup`, `AddPair`, `Find`, `Own`, `Move`
for the two moves, `Open`, `Adopt`, `Rename`, `SetMtu`, `SetUp`, `AddQdisc` for
the two ends in their namespaces, and `CleanUp`. Every call may take effect or
not, and its answer may be a success, a transient error (try again from the start
of the endpoint, until the deadline) or a hard error or interrupt (clean up).
`Occupy` is the environment: somebody else takes a name, any that is free at the moment, also
the one an end of ours has just left. A lookup may miss a
device that is there, once or again. `CleanUp` is `_cleanup_veth` with its two kinds of
location: each is left after its first deletion, so `FirstOnes` says which of two ends in the
root namespace is deleted, and a device is deleted if it carries our token (`HasToken`),
whosever it is. The error the outer handler raises, and
the suppression of errors within the clean-up, are the labels `clean` and `failed`.

### FrrRuntime

| Variable | Code |
|---|---|
| `pc`, `todo`, `cmd` | position; what the loop over nodes has still to do, node by node, and within a node step by step; `stop`, `start` or the `stop` within a `start` |
| `half` | a step is half done: a path found absent and not yet made, a pid sent SIGTERM and not yet SIGKILL |
| `dirs` | each managed directory: absent, made but without a marker, with our marker, somebody else's |
| `meta`, `pidfile` | the two records of a daemon's pid: `processes.json`, and the file the daemon writes itself |
| `proc` | who has each pid: nobody, a zombie, a daemon, another program |
| `started`, `queue` | what this `start` has spawned; what `_terminate_processes` has yet to signal |
| `outcome`, `past`, `harm` | how the last command ended; facts the properties excuse; faults so far |

`Start`, `FindDirectory`, `MakeDirectory`, `WriteMarker`, `Spawn`, `WaitStarted`,
`SaveMetadata`, `Started` are `start()`; `Stop`, `ReadRecord`, `AllRead`, `SendTerm`, `Gone`,
`SendKill`, `Terminated`, `ValidateAll`, `RemoveNext`, `Removed` are `stop()`, whose second
half, from the signals on, is also the rollback of `start()`, and which is the
first part of `start()` when something is left over. The look at a path, the `mkdir` that
accepts an existing directory and the marker are three steps; so are SIGTERM, the polls, and
SIGKILL to whoever has the pid by then. `Interrupt`, `Kill` and `Reboot` cut them
short; `WritePidFile`, `Die` and `Obey` are the daemons, which obey a SIGTERM at once, later or
not at all; `Claim` and `Reuse` are others, who
take a path or a free pid. A command ends `started`, `stopped` or `refused`; a failed `start`
ends `not started` when its rollback ran through and `rollback failed` when it did not, and a
failed `stop`, also the one within a `start`, ends `not stopped`. One command runs at a
time: the deployment lock sees to that. The FRR configuration, the resolution of binaries and the `frr` user are
not represented.

### ExecProcess

`mask`, `pending` and `tripped` are the signal mask, the signals the kernel holds
back and those the interpreter has taken note of but not yet raised. `held` are
the helper, its pidfd and the duplicated stdin; `flags` are the three booleans of
`_spawn_nspopen`; `stored` and `bodyError` are the errors on their way out.
`Enter` to `RestoreMask` create the helper with both signals blocked,
`Communicate` to `BlockRelease` are the body, `BlockForCleanup` to `RestoreAgain` give
everything back, `Escape` is a handler that runs where no `try` catches it.
`Arrive` sends a signal, `TargetEnds` is the command.

### The path of a manifest

`Manifest` to `Inspection` are operators; `Deployment` is the state machine that
applies them. A manifest is a record of nodes and links whose addresses, devices,
routes, rules, neighbors, bridges and routers have the fields of the source. Names
and addresses are taken apart already (`[v, net, host]`), because the relations
between them are what the validators and the planner are about.

| Variable of `Deployment` | Code |
|---|---|
| `manifest`, `pc`, `todo` | `nslab.yaml`, the stage of `_deploy_locked`, the nodes this stage has yet to come to |
| `space`, `root` | the namespace of each node; link ends still in the root namespace |
| `recorded` | the snapshot |
| `drift` | the one thing somebody changed afterwards |

`Refuse` and `Accept` are the validators, `Crash` and `Compile` the planner with its
assertion, `CreateNamespaces`, `CreateBridges`, `CreatePairs` the loops of the
lifecycle, `StartNode` and `Configure` one step per block of `configure_node`,
`StartRouting` what daemons add, `Verify` the inventory and its comparison. `Drift`,
`Lose`, `Replace` and `Strand` are one change by somebody else to any object of any
namespace: an address, a flag, a route, a VLAN, a qdisc, a sysctl, a
namespace, a pair. Nothing fails here unless the kernel refuses a request for what it
is; failures as such are the other modules' subject.

`Netns` is a model of Linux, not of nslab: which requests a namespace refuses, what
a link's state does to addresses and routes on it, what is copied from a parent or a
first member. It contains what the requests of `pyroute2.py` depend on and nothing else.

## 3. Runs

| Run | Instance | Asks | Distinct states |
|---|---|---|---|
| `Recovery` | 1 invocation at a time, 2 topologies, 2 foreign changes, 1 power loss | everything a sequence of commands may go through, that every command ends, and that all of it is the abstract journal | 141 170 |
| `Contention` | 2 invocations, kills, 1 removal of the file | exclusion, write-ahead, no adoption | 1 853 655 (symmetry) |
| `StateStore` | 2 contents, 1 writer, 1 reader | the store's promise | 10 088 |
| `Lock` | 2 invocations, timeout 3, poll 2 | exclusion, descriptors, every waiter answered | 12 489 |
| `Journal` | 2 topologies with one shared resource | the abstract journal is sound | 153 |
| `VethCreate` | one pair, 2 retries per deadline | what `create_veth` returns, leaves, and never touches | 31 408 |
| `FrrRuntime` | 1 node, 2 daemons, 3 pids, 2 faults | start and stop through any two faults | 575 137 (symmetry) |
| `ExecProcess` | both signals, 2 failing calls | helper, mask and signals | 1 191 |
| `Deployable` | 1 493 manifests | validators, plan, blocks, decoding, comparison, snapshot and inspection agree | 82 695 |
| `LostState`, `Degraded`, `FrrCrash` | 1 invocation; 1 node and 1 daemon | three statements of documentation and comments, refuted (section 5) | counterexample |

The properties, by module:

* `Lifecycle`. `LiveIsRecorded`: whatever entry a power loss can leave names everything that is live.
  `DeployedIsVerified`: a visible `deployed` entry means that the whole topology is up, unless
  someone else changed it since it was verified; the hard case is a save that raised after the
  rename. `RefusalTouchesNothing`: a deploy or destroy that refuses has changed nothing (a
  redeploy may have destroyed before its second half refuses). `SuccessIsDurable`: a reported change
  survives a power loss. `CleanRunSucceeds`: a command that met neither fault nor
  interference succeeds or refuses. `ForeignSpared`: a namespace nslab did not create is only
  deleted under a name it had created for the journalled deployment. `MutualExclusion`,
  `WriteAhead`, `InterruptedStays`: one command at a time; the kernel changes only under the
  durable entry of the very command that changes it; an entry left half-way is adopted by nobody.
  `ImplementsJournal`, and `Terminates`: every command ends.
* `StateStore`. `NeverTorn`, `ReadersSeeWhole`, `OutcomesAreTruthful`.
* `DeploymentLock`. `Exclusion`, `NoDescriptorLeft`, `WaitersAreAnswered`.
* `OwnershipJournal`. `NoOrphans`.
* `VethCreate`. `OthersUnharmed`: no device of somebody else is moved, renamed, changed or deleted,
  whatever names it has taken, but one that takes the root name which a move without an answer
  has freed (section 5). `ReturnsConfigured`: both ends returned are in place, renamed,
  marked and up. `RetriesDoNotCollide`: a retry meets `EEXIST` only over somebody else's device, or
  after a lost answer to `tc add`, which the code does not recognise as its own. `LeftoverIsVisible`:
  a failed call leaves nothing; where the kernel ignored an alias, or the clean-up deleted that
  other device in place of ours, an end stays in the root namespace where the inventory looks.
  `Returns`.
* `FrrRuntime`. `OthersKept`: directories of others are not taken over or removed, unless they
  appear in one of two windows: between the look and the `mkdir`, or between the validation and
  the removal. `StopIsComplete`: after a stop that returned, and after a start that failed or was
  cancelled and rolled back, nothing runs and nothing is left; a rollback that fails in its turn
  has ended the daemons; a stop that fails leaves daemons only with their records.
  `StrangersSpared`: another process gets a SIGTERM only over a record that went stale (a daemon
  that died, a command cut between termination and removal), and a SIGKILL only so, or when it
  was given the pid of a daemon that obeyed while nslab was polling that pid.
  `RefusedForCause`: no sequence of failures other than a cut
  between a directory and its marker locks a deployment out. `StartedIsReady`.
* `ExecProcess`. `NothingLeftBehind`, `MaskRestored`: no single event leaves a helper, a
  descriptor, the command or a blocked mask; it takes two. `NoSignalLost`, `SignalEnds`.
* `Deployment`. `AcceptedDeploys`: an accepted manifest deploys exactly if it has none of the
  gaps of section 5. `RecordedIsValid`: the snapshot passes the check that every later command
  makes, and compiles to the same plan. `DeployedIsReported`: what was verified is reported
  as deployed. `DriftIsSeen`: one change is told, and blamed on its node, exactly if the plan
  speaks of what was changed. `JudgesAgree`: the status and the differences of `inspect`, which
  come from different code, agree; except for rounded token buckets and the options of simple
  qdiscs. `NothingUndone`: no block of `configure_node` undoes what an earlier one did.

### Bounds, and why they are enough

`MaxMishaps` bounds the environment of `Lifecycle`: at most two foreign changes, one power
loss, one removal of the file. Two changes allow one to delete what the other
created, or two at different stages of one command. One outage is enough because
it resets every process and leaves `durable` a singleton: what follows a second
one is what follows a first. Faults and kills are not bounded. Two topologies
share one namespace name, because a conflict, a stale plan and `redeploy` with
a changed manifest need exactly that; the larger one has a bridge, a plain
node, a link and routing, so that every stage and every routing outcome is
passed, the smaller one has no routing. `Recovery` runs one invocation at a time
(any number after one another); what two do to each other is `Contention`, and
the lock serialises the rest. `Contention` leaves out the outside events that
concern single commands. In `Lock` a timeout that is not a multiple of the poll
interval gives the shortened last sleep. The symmetries permute invocations and
pids, which nothing tells apart.

`Patience` 2 gives a first try, a retry and a retry that is the last one. `MaxHarm` 2
in `FrrRuntime` allows a second fault during the recovery from a first (daemons obey signals
and pids are reused without counting as faults); three pids
are two daemons and a stranger, or a pid to be reused. `MaxFailures` 2 in `ExecProcess`
together with two signals is one event more than its properties speak of.

The manifests of `Deployable` come in families, one per chapter of the manifest, each with
every combination of its values over two nodes and two links: devices two and three at
a time over declared and undeclared endpoints, MAC addresses of bonds and members,
bond modes, routes with and without VRFs, rules, neighbors, bridge ports and
VLANs, shaped links, routers alone and in pairs, IPv6 on narrow links. Features meet
within a family, and devices meet each other in all families; two nodes are enough
for what the validators compare across nodes (router ids, the meeting of addresses on
a link).

Deadlock is checked in every run but `VethCreate` and `ExecProcess`, whose subject is
one call that ends. `FrrRuntime` and `Lifecycle` can always start another command.

### Fairness

`Terminates` assumes `WF_vars(Advance(p))`: a started process that can take a
step eventually does. Calls into kernel, store and routing runtime return or
raise (the code gives its routing commands timeouts), and the wait for the lock
ends at its deadline. Nothing is assumed of the environment, of kills, or of
which outcome a call has. `WaitersAreAnswered` assumes that time passes and that a
process inside `__enter__` is scheduled; nothing is assumed of the holder.
`Returns` assumes that each netlink call of `create_veth` returns. `SignalEnds` assumes that
nslab runs; the command need not end by itself and no signal need come.

## 4. Proofs

| Theorem | States |
|---|---|
| `Lifecycle_proofs!TypeCorrect`, `LockExcludes`, `NothingIsOrphaned` | `[]TypeOK`, `[]MutualExclusion`, `[]LiveIsRecorded` |
| `Lifecycle_proofs!DeployedIsTrue`, `SuccessSurvives`, `RefusalsAreHarmless` | `[]DeployedIsVerified`, `[]SuccessIsDurable`, `[]RefusalTouchesNothing` |
| `Lifecycle_proofs!WriteAheadAlways`, `ForeignIsSpared`, `InterruptedEntriesStay` | `WriteAhead`, `ForeignSpared`, `InterruptedStays` |
| `Lifecycle_proofs!CleanRunsSucceed` | `[]CleanRunSucceeds` |
| `Lifecycle_proofs!LifecycleImplementsJournal` | `Spec => ImplementsJournal`, if nobody removes the file by hand |
| `Lifecycle_proofs!JournalAccounts` | `OwnershipJournal` on its own: `[]NoOrphans` |
| `StateStore_proofs!TypeCorrect`, `FileIsWhole`, `ReadersAlwaysSeeWhole` | `[]TypeOK`, `[]NeverTorn`, `[]ReadersSeeWhole` |
| `StateStore_proofs!OutcomesAlwaysTruthful` | `Spec => OutcomesAreTruthful` |
| `DeploymentLock_proofs!LockIsExclusive`, `DescriptorsAreClosed` | `[]Exclusion`, `[]NoDescriptorLeft` |
| `VethCreate_proofs!OthersAreSafe`, `WhatReturnsIsConfigured`, `NoRetryCollides`, `LeftoversAreVisible` | `[]OthersUnharmed`, `[]ReturnsConfigured`, `[]RetriesDoNotCollide`, `[]LeftoverIsVisible` |
| `FrrRuntime_proofs!OthersAreKept` | `OthersKept` |
| `FrrRuntime_proofs!StopsAreComplete`, `StrangersAreSpared` | `[]StopIsComplete`, `[]StrangersSpared` |
| `FrrRuntime_proofs!RefusalsHaveCauses`, `StartsAreReady` | `[]RefusedForCause`, `[]StartedIsReady` |
| `ExecProcess_proofs!CleanupIsComplete`, `MaskIsRestored`, `SignalsAreKept` | `[]NothingLeftBehind`, `[]MaskRestored`, `[]NoSignalLost` |
| `Deployment_proofs!DeployedIsReportedAlways` | `[]DeployedIsReported` |
| `Deployment_proofs!SnapshotsAreValid` | `[]RecordedIsValid` |
| `Deployment_proofs!NothingIsUndone` | `NothingUndone` |
| `Deployment_proofs!JudgesAlwaysAgree` | `[]JudgesAgree` |
| `Deployment_proofs!DriftIsAlwaysSeen` | `[]DriftIsSeen` |
| `Deployment_proofs!BuildsAlways` | the inductive invariant of a build |
| `Deployment_proofs!DeployedHasNoDifference` | for any plan, inventory and snapshot: what the first comparison calls deployed has no difference in the second, if nothing was rounded |
| `Deployment_proofs!VerdictsHaveReasons` | for any plan, inventory and snapshot: what the first comparison does not call deployed has a difference in the second, if the texts it compares tell apart what the first does |
| `Deployment_proofs!RuntimeNamesAreFree` | the name the comparison leaves to the daemons of a node is no interface of an accepted manifest |
| `Deployment_proofs!CrashesAreExplicit` | the planner's assertion fails only over a route with an explicit table whose next hops are in several |

They hold for all values of the constants that satisfy the modules' assumptions:
`TopologyAssumption` (bridges and links of a topology lie in its namespaces, a link
has an end), `ValueAssumption`, `NoEntryAssumption`, `ContentAssumption` and
`NobodyAssumption` (special values are not ordinary ones, bounds are numbers),
`TimeAssumption` (times are numbers, a poll interval is not zero), `SequencesAssumption`
and `NamesAssumption` (the nodes and the daemons of `FrrRuntime` are listed once each, and
the words of the model for nobody and for a zombie are no pids),
`NoneAssumption`, `ErrnosAssumption` and `TextsAssumption` (the word for "not there" is no number, no
interface, no error and no text), and `ManifestsAssumption` (a manifest has the fields of the classes of
`manifest.py`: its mappings and sets are finite, its tuples are tuples, its names are there, a
device has one of the types the manifest knows and the fields of its type). That is any number of
invocations and topologies, any sharing of names, any number of outside events, any
contents, any deadline, any number of nodes, daemons and pids, any manifests.

### Lifecycle

`TypeOK` alone is not inductive: that a loop's items are namespaces or links
depends on the label, so `TypeInv` adds `LoopItems`. `MutualExclusion` is
preserved given the types.

`LiveIsRecorded` needs `IInv`. A step that creates something must know that the
only entry that can survive is its own `deploying` entry; that is a fact about
control, spread over many labels, and it holds because the lock keeps others
away. `IInv` states it as `JournalAt`: while an invocation is at a label of
`Building` or `Removing`, all of `durable` is its transient entry. A step that
erases the entry must know that nothing is live, for every entry that may
still come back: that is `ClearedAt`, established by the fresh look at the kernel
(`CleanedUp`) and kept as long as the lock is. `Kernel` ties `ours` and `veth`
to `phase`: what the inventory shows absent is not live. The proof goes through
the actions once for each of the parts, with lemmas that say which variables an
action can move (`StoreActions`, `HostActions`, `Locality`).

What a command reports depends on its past, so the second part of the module adds `PastInv`
to these: who wrote the transient entry (`AuthorAt`), that every namespace in
`made` is our own (`MadeAt`, `BornAt`, `BornEntries`), that a delete is retried only over an
unknown outcome (`RetryAt`), what is durable once a result is decided (`ReportAt`), that a
command that is going to refuse has touched nothing (`RefusedAt`), and that
between `Verify` and the final save nothing but others changes the kernel (`VerifiedAt`).

`CleanRunSucceeds` says that a command which met neither fault nor interference does not
fail, so its invariant `CleanInv` says of every label how far such a command has come. A
build has made what it is through with and nothing more (`PhasesAt`, `PairsAt`, `RuntimeAt`),
a removal has deleted what it is through with (`EmptiedAt`), and neither is ever at a label of
`Recovering`. What it starts from was left by others: an entry that says `deployed` may only be
there while no veth end is stuck in the root namespace and no runtime directory is torn
(`Whole`, `WholeEntries`), since a `destroy` would trip over either. Both come from commands
that failed, whose entry does not say `deployed`; a removal of the file by hand would make
nslab forget that, hence the condition on it.

The refinement maps a step of `Lifecycle` to a step of the journal or a stutter:
`HostRefines` for what changes the kernel, `StoreRefines` for what changes the file,
`OutsideRefines` for the environment, each with `IInv` to know that the abstract guard
holds. A removal of the file by hand is no step of the abstract journal, hence
the theorem's assumption.

### Store, lock, veth pair, deployment

`StateStore` is proved from an invariant that says what `entries` may contain at each
system call; `OutcomesAlwaysTruthful` adds what the last return left. The lock's invariant
says which labels own a descriptor and which hold the lock. `VethCreate_proofs!Inv`
says, for the moving and the configuring stage, where the two ends are, and
whose the device in hand is; the hard case is `InHand`: the index may be
that of a foreign device that has taken a name our end has left. Before a rename, our end then
has the final name, and before a move the node's temporary one, so that either fails
and the foreign device keeps its place; but it may have been given our token. `Counted` and
`OthersUnharmed` together say that our token is on no device of others but the one under the
root name of the end being moved, and on that one only after a move without an answer; after
such a move the work never gets as far as configuration. `AtCleanUp` says that the clean-up, which guesses the place of each end
once, guesses right for one of them; `Stray` is where the deletion of another's device, or an
alias the kernel ignored, makes it stop short of ours.

### FrrRuntime

The loops over nodes and daemons are sequences of sequences, of any length; lemmas about
`Rest` and `InOrder` say that a step takes the first job from what is left and that nothing
occurs twice. On these the invariant is built in layers, each of which needs the ones below:
`CInv` (which label holds what), `DInv` (which directories may be without a marker or somebody
else's), `TreeInv` (no node's directory without the deployment's, no record without the node's:
this is why removing in the reverse order is safe), `EInv` (what `start` has yet to spawn has
no record, what it has spawned and saved has one, nothing is queued twice), and last who has
the pids. `OwnRecords` and `CalmInv` follow a pid from the record to the signal: as long as no
daemon dies by itself and no command is cut between termination and removal, a pid on
record is its daemon's or free, and so is a pid in the queue, but for the one that was sent
SIGTERM (`OwnTarget`): its daemon may have obeyed, and a program that has its pid now came
while nslab was polling. `DirsInv` says the same of paths: one found absent is still absent, or
somebody came late. `LivingInv` says the converse: every daemon that runs is on
record, or in the queue, or among the children that the rollback of `start` knows.
`StoppedInv` adds that a rollback removes everything after its validation, whatever made
`start` fail. `StrangersSpared` is the one, `StopIsComplete` the other; each excuses just the
facts in `past`
that break its chain.

### ExecProcess

The invariant says for each label what is held and which mask is set: while the helper is made
(`CreationInv`), between it and the command (`TargetInv`), in the body and in the cleanup. The
properties excuse two events, not one, so `OnceInv` is stated for the behaviours with at most
one so far (`Twice`): there the cleanup runs to its end with both signals blocked.
`SignalsInv` and `ErrorInv` account for each signal: it waits in the kernel, or in the
interpreter, or is the error on its way out.

### Deployment

The invariant of `Deployment` is what the pipeline knows at each stage, in five layers.

`RecordedIsValid` is about `normalized_manifest`: the snapshot holds not the manifest but what
that makes of it, and later commands validate and compile the latter. It fills in three fields
of 802.3ad bonds and nothing else (`NormalizedIsSame`), so the proof goes through every
validator and every part of the planner and shows that it reads other fields, or makes of
what is missing the same default (`NormalizedIsAccepted`, `NormalizedMeansTheSame`). The rest is
that the tables of `lifecycle.py` and `snapshot.py` agree (`IdentitiesAgree`) and that the
recorded link identities are complete and distinct, which they are because they were
recorded after `LinksMatch` had been true of them (`MatchedIdsAreValid`).

`Builds` is what is true of the namespaces while they are built: each is `Sound`. That
says of a namespace that its devices, ports and address families are well formed (`Formed`,
`Tidy`), that what is in it was asked for by the plan (`LinkOrigin`: an address of an enabled
family, the shaping of one of the interface's links) and that the error is a known one. A
request of `Netns` keeps it (the lemmas called `...Keeps`, one per request). The nineteen blocks of `configure_node`
are folds of such requests over the devices, addresses and routes of an arbitrary
manifest. `Folding` proves, by induction over the size of a finite set, that a fold keeps what
each of its steps keeps, and is instantiated once for each fold; `ConfigureBuilds` puts the
blocks together. `NothingIsUndone` is the same argument for what a block of a build may not take
away: no address, route, neighbor or rule is lost, and what has addresses stays up. It needs `Fresh`, that before
the addresses there are none for a block to take down with their device.

The two comparisons of `inspect` are related in both directions by lemmas on one interface, one
node and one link. What is deployed has no difference unless a token bucket was rounded
(`Exact`). What is not has one, if the lists and texts the second comparison prints tell apart what
the first does (`Legible`): not so for the options of simple qdiscs, nor for the
VLANs of a port in another order; and if what the daemons make is neither an interface of
the plan nor a veth (`Apart`), the first of which `RuntimeNamesAreFree` proves of every accepted
manifest. `JudgesAlwaysAgree` shows that what `deploy` leaves, and what one change by somebody else makes of it, is
`Legible`, and not `Exact` only where the property says so: shapes come from the plan (`LinkOrigin`), VLANs are a finite
set with one entry for each number, and each of the changes is followed to the fields it touches (`SettingsVary`, `SetsVary`,
`Touches`).

`DriftIsAlwaysSeen` is the exactness of `inspect`, over every change of `Changes`, lost
namespaces, replaced pairs and stray ends. It rests on what was verified when deploy ended (`Verified`): the namespace
of each node is read back as its plan, which names each interface once (`Placed`,
`Distinct`). There are two halves. A change of what the plan speaks of cannot be
read back as the plan (`ConcernedIsSeen`): what the change has made of a field, an address, a route or a
device is followed through the decoding of the inventory to the first field of the comparison that
differs. A change of anything else is read back as before (`OtherwiseIsUnseen`): an MTU that
follows another device's, a MAC nobody declared, the flags and VLANs of ports whose
bridge does not state them, learned routes, the ageing of dynamic neighbors. Both need that the decoding reads nothing but the links, routes
and settings that the change leaves alone (`Alike`). Links have an identity besides, which only
the snapshot can tell (`RecordedIds`, `OtherIdIsSeen`). That the node is blamed follows from the second
comparison, which has a difference wherever the first has one (`MismatchIsDifference`).

### Only model-checked

Liveness (`Terminates`, `WaitersAreAnswered`, `Returns`, `SignalEnds`), which is out of
the prover's reach. Of `Deployment`, `AcceptedDeploys`: the total correctness of the
nineteen blocks against the kernel. None of their requests fails, for any manifest outside the
twelve gaps of section 5, and together they leave exactly what the inventory expects. `Builds` has
the part of it that says what cannot be there; that everything is there needs for each fold
what it has done so far, not only what it keeps.

## 5. Where documentation and code disagree

* `LostState`: `docs/cli.md:34-35` says that after state has disappeared, `destroy`
  with the original `--topo` and `--name` performs an exact destroy. The code
  refuses with `OWNERSHIP_UNKNOWN` as soon as a planned namespace is live
  (`lifecycle.py:291-297`); it only stops a leftover routing runtime.
* `Degraded`: `docs/getting-started.md:100-101` says to use `destroy` or `redeploy` on a
  degraded deployment. One that is degraded because a command was interrupted is
  refused with `DEPLOYMENT_INTERRUPTED` (`lifecycle.py:310-312, 454-462`).
* `FrrCrash`: the comment at `routing.py:630-631` says that a crash between spawning a
  daemon and writing metadata must be recoverable by destroy, over the pid files. A
  `stop` that comes before the daemon has written its pid file finds neither record,
  removes the directory and leaves the daemon running (`routing.py:1196`).

Accepted manifests that cannot be deployed. `docs/manifest-overview.md:4-5` promises that
unknown fields, wrong types and invalid references are rejected before any change; what
goes beyond a single reference, and above all the kernel's own rules, the validators know
only in part. `AcceptedDeploys` shows that these are all the exceptions among the manifests
of the run; each is a predicate of `Deployment`. They end in an error and a rollback, or in
an assertion, not in damage:

| Gap | Manifest |
|---|---|
| `SpansTables` | a route with an explicit table and next hops in different VRFs: `compile_plan` asserts |
| `LeftDown` | a VRF member without an entry under `interfaces`: membership takes it down and nothing brings it up again |
| `SharesParent` | macvlan, ipvlan and bond on one parent, or ipvlans of different modes |
| `TwinTunnels` | two GRE or IPIP tunnels with the same ends and key |
| `MemberMac` | a MAC address declared for a bond's member that is not the bond's |
| `TooNarrow` | an IPv6 address on a device or bridge that takes less than 1280 bytes from its link |
| `Unsorted` | port VLANs not listed in the order of their numbers: deployed, but never equal to what is read back |
| `DottedProxy` | a proxied neighbor on a device with a dot in its name: its sysctl path is split there |
| `NoWayTo` | a gateway on no network of its device |
| `ZeroMark` | a rule for firewall mark 0: the kernel reports its mask without the mark, which the inventory refuses |
| `SystemRule` | a rule equal to one of the namespace's own, which is taken for it |
| `Coarse` | a token bucket whose burst or queue the kernel cannot hold, or rounds further than is tolerated |

Races that the properties state as exceptions, none of them spoken of by the documentation:

* A move whose answer is lost frees the temporary root name. The retry finds its end by name
  (`backend/pyroute2.py:1416-1423`); a device that somebody else has just given this name is
  taken for it, marked with nslab's token (1424-1425), and then deleted by the clean-up, which
  stops there (1597-1598) and may leave the pair itself with one end in the root namespace
  (`OthersUnharmed`, `LeftoverIsVisible`).
* A directory that appears after `start` found its path absent (`routing.py:363`) is accepted by
  `mkdir` (550), given our marker (368) and removed by the next `stop`; one that appears between
  the validation of the clean-up and its removal is removed too (`OthersKept`).
* A daemon that obeys its SIGTERM frees its pid; a process that is given it before the next poll
  is taken for the daemon, and killed at the deadline (`routing.py:1124-1132`;
  `StrangersSpared`).

Two more observations, stated in the properties as exceptions: a topology without nodes is
accepted and deploys, and `inspect` calls it `stale` at once (`DeployedIsReported`); a rounded
token bucket and changed options of a simple qdisc are judged differently by the two
comparisons (`JudgesAgree`).

## 6. Plan

1. Theorems: of each block of `configure_node`, what it has done when it ends
   (`AcceptedDeploys`).
2. `inspect` beside a running command: it reads the snapshot and the kernel at two moments
   without the lock (`cli.py:231`). `Inspection` judges one moment.
3. `exec` beside a `destroy`: a process inside keeps a namespace whose name is gone
   (`backend/pyroute2.py:3756`), with its veth ends.
4. `FrrRuntime` shown to implement the runtime `Lifecycle` assumes (`frr`).

### Not modelled

* Argument parsing, rendering, exit codes, the graph, completion, error classes, names and
  version: text without decisions that the properties are about.
* The fake backend: a double for the tests, never part of a deployment.
* The syntax of single manifest fields (names, numbers, ranges, YAML) and the texts of rates and
  sizes: the manifests of the model are made of valid ones.
* Answers of the kernel that the inventory refuses as unsupported, other than a mask without
  its mark; the tunnel modules' fallback devices (`gre0`, ...); the options of htb, cake,
  fq_codel and the simple qdiscs, which are values read back as they were set.
* Interface indexes, timestamps, and snapshots of earlier versions, without identities.
* The modes and owners of the runtime's directories: `_ensure_directory` sets the mode of an
  existing one before its marker is read (`routing.py:550-551, 364-366`).
* The rendered FRR configuration and what the daemons do with it, other than adding
  routes and an interface.
