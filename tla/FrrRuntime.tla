----------------------------- MODULE FrrRuntime -----------------------------
(***************************************************************************)
(* routing.FrrRuntime: start() and stop() of one deployment's FRR daemons, *)
(* step by step.  Every directory nslab makes gets a marker of its         *)
(* configuration after it is made; only directories with a matching marker *)
(* are ever removed.  The daemons are known by processes.json, or, for the *)
(* ones it lacks, by the pid files the daemons write themselves.           *)
(*                                                                         *)
(* Invocations are serialised by the deployment lock, so one process runs  *)
(* at a time; it may be interrupted (SIGINT, SIGTERM), fail or be killed   *)
(* at any step, daemons die, and the system hands out free pids again.     *)
(***************************************************************************)
EXTENDS Naturals, Sequences, SequencesExt

CONSTANTS Nodes,         \* the routed nodes, in the order of the plan
          Daemons,       \* zebra, then the node's routing daemons
          Pids,
          MaxHarm        \* bound on interrupts, kills, failures and reboots

N == Range(Nodes)
D == Range(Daemons)
NoPid == "no pid"

(* Nodes and daemons have names of their own, a routed node runs zebra, and *)
(* no name of a node has a blank.                                           *)
ASSUME SequencesAssumption ==
  /\ Nodes \in Seq(N) /\ IsInjective(Nodes)
  /\ Daemons \in Seq(D) /\ IsInjective(Daemons) /\ Daemons # <<>>
ASSUME NamesAssumption == "no daemon" \notin N /\ NoPid \notin Pids

(* Who has a pid: nobody, an unreaped child, another program, or a daemon.  *)
Free     == <<"no daemon", "free">>
Zombie   == <<"no daemon", "zombie">>
Stranger == <<"no daemon", "stranger">>

Run == <<"run", "deployment">>              \* /run/nslab/NAME
NodeDir(n)  == <<"node", n>>                \* /run/nslab/NAME/NODE
StateDir(n) == <<"state", n>>               \* /var/run/frr/PATHSPACE
VtyDir(n)   == <<"vty", n>>                 \* /etc/frr/PATHSPACE
Paths == {Run} \cup ({"node", "state", "vty"} \X N)

VARIABLES
  pc, todo,              \* where the running command is, and its loop over the
                         \* nodes: the steps to come, node by node
  cmd,                   \* stop, restart (the stop() within start()), start
  half,                  \* a step of it is begun: a directory found absent, not
                         \* yet made; a pid sent SIGTERM, not yet SIGKILL
  dirs,                  \* absent, bare (no marker), ours, or other's
  meta, pidfile,         \* the pid of each daemon by either record
  proc,                  \* who has each pid
  started,               \* start(): the daemons it has spawned
  queue,                 \* _terminate_processes: pids still to be signalled
  outcome,               \* how the last command ended: started, stopped, refused, ...
  past,                  \* what has happened that the properties excuse
  harm                   \* faults so far

disk == <<dirs, meta, pidfile>>
vars == <<pc, todo, cmd, half, disk, proc, started, queue, outcome, past, harm>>

Daemon(pid) == proc[pid] \in N \X D
Exists(pid) == pid # NoPid /\ proc[pid] # Free        \* _pid_exists

(* The work of start() after the checks: directories and daemons.           *)
DaemonsOf(n) == [j \in 1..Len(Daemons) |-> <<"daemon", <<n, Daemons[j]>>>>]
JobsOf(n) == <<NodeDir(n), StateDir(n), VtyDir(n)>> \o DaemonsOf(n)
StartJobs == <<<<Run>>>> \o [i \in 1..Len(Nodes) |-> JobsOf(Nodes[i])]

(* The records stop() reads, and the removals of _cleanup_deployment.       *)
InOrder == [i \in 1..Len(Nodes) |-> DaemonsOf(Nodes[i])]
Removals == <<<<Run>>>> \o [i \in 1..Len(Nodes) |-> <<StateDir(Nodes[i]), VtyDir(Nodes[i])>>]

(* The step that comes next, and the ones after it.                         *)
Job == Head(Head(todo))
Rest == IF Len(Head(todo)) = 1 THEN Tail(todo) ELSE <<Tail(Head(todo))>> \o Tail(todo)

-----------------------------------------------------------------------------
(* What the directories say.                                                *)

HasArtifacts == \E p \in {Run} \cup ({"state", "vty"} \X N) : dirs[p] # "absent"

(* _legacy_runtime_node_safe: no marker, but a pid file.                    *)
LegacySafe(n) == dirs[NodeDir(n)] = "bare" /\ \E d \in D : pidfile[n][d] # NoPid

(* _validate_runtime_artifacts on a directory that lost its marker.         *)
Legacy == /\ dirs[Run] = "bare"
          /\ \E n \in N : dirs[NodeDir(n)] # "absent"
          /\ \A n \in N : dirs[NodeDir(n)] # "absent" => LegacySafe(n)

(* _validate_artifacts: everything that exists is ours.  RunOnly: only the  *)
(* runtime directory is looked at.                                          *)
Mine(p) == dirs[p] \in {"absent", "ours"}
RunOnly == Mine(Run)
Valid ==
  /\ Mine(Run) \/ Legacy
  /\ \A n \in N : /\ Mine(NodeDir(n)) \/ (Legacy /\ LegacySafe(n))
                  /\ Mine(StateDir(n)) /\ Mine(VtyDir(n))

(* _status_for_node for every node: all records complete, all pids alive.   *)
(* MetadataOnly: no look at the processes.                                  *)
Records == \A n \in N : /\ \A d \in D : meta[n][d] # NoPid
                        /\ dirs[NodeDir(n)] = "ours" /\ dirs[StateDir(n)] = "ours"
MetadataOnly == Valid /\ dirs[Run] # "absent" /\ Records
Ready == /\ Valid /\ dirs[Run] # "absent" /\ Records
         /\ \A n \in N, d \in D : Exists(meta[n][d])

(* _read_records: processes.json first, a pid file for what it lacks.       *)
(* MetadataFirst: pid files count only where there is no metadata.          *)
MetadataFirst(n, d) ==
  IF \E x \in D : meta[n][x] # NoPid THEN meta[n][d] ELSE pidfile[n][d]
Record(n, d) == IF meta[n][d] # NoPid THEN meta[n][d] ELSE pidfile[n][d]

Now == IF \A p \in Paths : dirs[p] \in {"absent", "other"} THEN "none"
       ELSE IF ~Valid THEN "torn" ELSE IF Ready THEN "up" ELSE "part"

-----------------------------------------------------------------------------
(* Outcomes.                                                                *)

Note(fact) == past' = past \cup {fact}

(* The command ends; what it spawned and saw die is reaped with it.         *)
End(how) ==
  /\ pc' = "idle" /\ outcome' = how
  /\ todo' = <<>> /\ queue' = <<>> /\ started' = <<>> /\ cmd' = "none" /\ half' = FALSE

Reaped(f) == [pid \in Pids |-> IF f[pid] = Zombie THEN Free ELSE f[pid]]

(* The error that ends start() is its own when the rollback ran through and *)
(* the rollback's when it did not; stop(), also the one within start(),     *)
(* raises as it is.                                                         *)
Failed == IF cmd = "start" THEN "rollback failed" ELSE "not stopped"

(* RaiseAtOnce: no rollback.                                                *)
RaiseAtOnce == End("not started") /\ proc' = Reaped(proc)

(* start()'s except BaseException: terminate what was started, clean up.    *)
Raise ==
  /\ half' = FALSE
  /\ \/ /\ pc \in {"jobs", "marker", "wait", "save"}
        /\ pc' = "terminate" /\ queue' = Reverse(started)
        /\ todo' = <<>> /\ UNCHANGED <<cmd, started, outcome, proc>>
     \/ /\ pc \in {"read", "validate", "remove"} /\ End(Failed) /\ proc' = Reaped(proc)
     \/ /\ pc = "terminate"
        /\ IF cmd = "start"        \* finally: the cleanup comes all the same
           THEN pc' = "validate" /\ UNCHANGED <<todo, cmd, started, outcome, queue, proc>>
           ELSE End(Failed) /\ proc' = Reaped(proc)

Harm == harm < MaxHarm /\ harm' = harm + 1

(* What a command that ends here leaves: a directory without its marker, or *)
(* the records of daemons that it has terminated.                           *)
CutShort == (IF pc \in {"marker", "remove"} THEN {"cut"} ELSE {})
            \cup (IF pc \in {"terminate", "validate", "remove"} THEN {"stale"} ELSE {})

(* A failing call, SIGINT or SIGTERM.                                       *)
Interrupt ==
  /\ Harm /\ Raise /\ UNCHANGED disk
  /\ past' = past \cup CutShort \cup (IF pc = "terminate" THEN {"lost"} ELSE {})

-----------------------------------------------------------------------------
(* start                                                                    *)

Start ==
  /\ pc = "idle"
  /\ \/ /\ ~HasArtifacts
        /\ pc' = "jobs" /\ cmd' = "start" /\ todo' = StartJobs /\ UNCHANGED outcome
     \/ /\ HasArtifacts /\ ~Valid
        /\ outcome' = "refused" /\ UNCHANGED <<pc, todo, cmd>>
     \/ /\ HasArtifacts /\ Valid /\ Ready
        /\ outcome' = "started" /\ UNCHANGED <<pc, todo, cmd>>
     \/ /\ HasArtifacts /\ Valid /\ ~Ready
        /\ pc' = "read" /\ cmd' = "restart" /\ todo' = InOrder /\ UNCHANGED outcome
  /\ UNCHANGED <<half, disk, proc, started, queue, past, harm>>

(* _prepare_managed_directory: a directory that exists must carry our       *)
(* marker.  One that was not there is made in a step of its own, with       *)
(* exist_ok: a directory that has appeared meanwhile is taken for ours, a   *)
(* file or a symbolic link is refused.                                      *)
FindDirectory ==
  /\ pc = "jobs" /\ todo # <<>> /\ Job \in Paths /\ half = FALSE
  /\ \/ /\ Mine(Job) /\ half' = (dirs[Job] = "absent")
        /\ todo' = IF dirs[Job] = "absent" THEN todo ELSE Rest
        /\ UNCHANGED <<pc, cmd, started, queue, outcome, proc>>
     \/ ~Mine(Job) /\ Raise
  /\ UNCHANGED <<disk, past, harm>>

MakeDirectory ==
  /\ pc = "jobs" /\ half = TRUE
  /\ \/ /\ pc' = "marker" /\ half' = FALSE
        /\ dirs' = [dirs EXCEPT ![Job] = IF @ = "absent" THEN "bare" ELSE @]
        /\ UNCHANGED <<todo, cmd, started, queue, outcome, proc>>
     \/ dirs[Job] # "absent" /\ Raise /\ UNCHANGED dirs
  /\ UNCHANGED <<meta, pidfile, past, harm>>

WriteMarker ==
  /\ pc = "marker"
  /\ dirs' = [dirs EXCEPT ![Job] = "ours"]
  /\ pc' = "jobs" /\ todo' = Rest
  /\ UNCHANGED <<cmd, half, meta, pidfile, proc, started, queue, outcome, past, harm>>

(* Popen.  An interrupt between the fork and started.append loses the child.*)
Spawn ==
  /\ pc = "jobs" /\ todo # <<>> /\ Job \notin Paths
  /\ \/ /\ \A pid \in Pids : proc[pid] # Free          \* EAGAIN
        /\ Raise /\ UNCHANGED <<past, harm>>
     \/ \E pid \in Pids :
          /\ proc[pid] = Free
          /\ proc' = [proc EXCEPT ![pid] = Job[2]]
          /\ \/ /\ started' = Append(started, <<Job[2], pid>>) /\ pc' = "wait"
                /\ UNCHANGED <<todo, cmd, half, queue, outcome, past, harm>>
             \/ /\ pc' = "terminate" /\ queue' = Reverse(started) /\ todo' = <<>>
                /\ Harm /\ Note("lost") /\ UNCHANGED <<cmd, half, started, outcome>>
  /\ UNCHANGED disk

(* _wait_started: polls the child, and waits for the socket of zebra.       *)
WaitStarted ==
  /\ pc = "wait"
  /\ LET pid == Last(started)[2] IN
     \/ /\ proc[pid] # Zombie /\ pc' = "save"
        /\ UNCHANGED <<todo, cmd, started, queue, outcome, proc>>
     \/ /\ proc[pid] = Zombie              \* reaped by the poll
        /\ pc' = "terminate" /\ queue' = Reverse(started) /\ todo' = <<>>
        /\ proc' = [proc EXCEPT ![pid] = Free]
        /\ UNCHANGED <<cmd, started, outcome>>
  /\ UNCHANGED <<half, disk, past, harm>>

SaveMetadata ==
  /\ pc = "save"
  /\ LET x == Last(started)[1] IN
     meta' = [meta EXCEPT ![x[1]] = [@ EXCEPT ![x[2]] = Last(started)[2]]]
  /\ pc' = "jobs" /\ todo' = Rest
  /\ UNCHANGED <<cmd, half, dirs, pidfile, proc, started, queue, outcome, past, harm>>

Started ==
  /\ pc = "jobs" /\ todo = <<>>
  /\ End("started") /\ proc' = Reaped(proc)
  /\ UNCHANGED <<disk, past, harm>>

-----------------------------------------------------------------------------
(* stop, _terminate_processes and _cleanup_deployment                       *)

Stop ==
  /\ pc = "idle"
  /\ \/ Valid /\ pc' = "read" /\ cmd' = "stop" /\ todo' = InOrder /\ UNCHANGED outcome
     \/ ~Valid /\ outcome' = "refused" /\ UNCHANGED <<pc, cmd, todo>>
  /\ UNCHANGED <<half, disk, proc, started, queue, past, harm>>

(* The record of the next daemon, if its process lives: the last one is     *)
(* signalled first.                                                         *)
ReadRecord ==
  /\ pc = "read" /\ todo # <<>>
  /\ LET x == Job[2]  pid == Record(x[1], x[2]) IN
     queue' = IF dirs[NodeDir(x[1])] # "absent" /\ Exists(pid) THEN <<<<x, pid>>>> \o queue
              ELSE queue
  /\ todo' = Rest
  /\ UNCHANGED <<pc, cmd, half, disk, proc, started, outcome, past, harm>>

AllRead ==
  /\ pc = "read" /\ todo = <<>>
  /\ pc' = "terminate"
  /\ UNCHANGED <<todo, cmd, half, disk, proc, started, queue, outcome, past, harm>>

(* SIGTERM to the process group, a wait, and SIGKILL for whoever has the    *)
(* pid by then.  A pid that leads no group (any more) is passed over.       *)
Target == Head(queue)[2]
Signalled(pid) == pc = "terminate" /\ half = TRUE /\ pid = Target
Killed(pid) == [proc EXCEPT ![pid] =
                  IF @ \in {Free, Zombie} THEN @
                  ELSE IF started # <<>> /\ @ # Stranger THEN Zombie ELSE Free]
Signal(kind) == past' = past \cup (IF proc[Target] = Stranger THEN {kind} ELSE {})

SendTerm ==
  /\ pc = "terminate" /\ queue # <<>> /\ half = FALSE
  /\ \/ proc[Target] # Free /\ half' = TRUE /\ Signal("termed") /\ UNCHANGED queue
     \/ proc[Target] \in {Free, Stranger} /\ queue' = Tail(queue) /\ UNCHANGED <<half, past>>
  /\ UNCHANGED <<pc, todo, cmd, disk, proc, started, outcome, harm>>

Gone ==
  /\ pc = "terminate" /\ half = TRUE /\ proc[Target] = Free
  /\ queue' = Tail(queue) /\ half' = FALSE
  /\ UNCHANGED <<pc, todo, cmd, disk, proc, started, outcome, past, harm>>

SendKill ==
  /\ pc = "terminate" /\ half = TRUE /\ proc[Target] # Free
  /\ proc' = Killed(Target) /\ Signal("shot")
  /\ queue' = Tail(queue) /\ half' = FALSE
  /\ UNCHANGED <<pc, todo, cmd, disk, started, outcome, harm>>

Terminated ==
  /\ pc = "terminate" /\ queue = <<>>
  /\ pc' = "validate"
  /\ UNCHANGED <<todo, cmd, half, disk, proc, started, queue, outcome, past, harm>>

(* Everything is validated before the first removal.                        *)
ValidateAll ==
  /\ pc = "validate"
  /\ \/ /\ Valid /\ pc' = "remove" /\ todo' = Removals
        /\ UNCHANGED <<cmd, half, proc, started, queue, outcome, past>>
     \/ ~Valid /\ End(Failed) /\ proc' = Reaped(proc) /\ Note("stale")
  /\ UNCHANGED <<disk, harm>>

NoRecords == [n \in N |-> [d \in D |-> NoPid]]

(* rmtree.  KeepRun: forgets the runtime directory.  EmptyTree: removes     *)
(* what is in the directories of FRR, not the directories.                  *)
Without(p) == [q \in Paths |-> IF q = p \/ (p = Run /\ q[1] = "node") THEN "absent" ELSE dirs[q]]
KeepRun(p) == dirs' = (IF p = Run THEN dirs ELSE Without(p)) /\ UNCHANGED <<meta, pidfile>>
EmptyTree(p) ==
  /\ dirs' = IF p = Run THEN Without(p) ELSE [dirs EXCEPT ![p] = IF @ = "absent" THEN @ ELSE "bare"]
  /\ meta' = IF p = Run THEN NoRecords ELSE meta
  /\ pidfile' = IF p = Run THEN NoRecords ELSE pidfile
RemoveTree(p) ==
  /\ dirs' = Without(p)
  /\ meta' = IF p = Run THEN NoRecords ELSE meta
  /\ pidfile' = IF p = Run THEN NoRecords ELSE pidfile

(* Cut short, it leaves any part of the tree: a directory without its       *)
(* marker, or the files of some nodes.                                      *)
TearTree(p) ==
  \/ /\ p # Run /\ dirs' = [dirs EXCEPT ![p] = IF @ = "absent" THEN @ ELSE "bare"]
     /\ UNCHANGED <<meta, pidfile>>
  \/ /\ p = Run
     /\ \E marker \in BOOLEAN, gone, unmarked, emptied \in SUBSET N :
          /\ dirs' = [q \in Paths |->
                        IF q = Run /\ ~marker /\ dirs[q] = "ours" THEN "bare"
                        ELSE IF q[1] = "node" /\ q[2] \in gone THEN "absent"
                        ELSE IF q[1] = "node" /\ q[2] \in unmarked /\ dirs[q] = "ours" THEN "bare"
                        ELSE dirs[q]]
          /\ meta' = [n \in N |-> IF n \in gone \cup emptied THEN NoRecords[n] ELSE meta[n]]
          /\ pidfile' = [n \in N |-> IF n \in gone \cup emptied THEN NoRecords[n] ELSE pidfile[n]]

RemoveNext ==
  /\ pc = "remove" /\ todo # <<>>
  /\ \/ /\ RemoveTree(Job)
        /\ todo' = Rest
        /\ UNCHANGED <<pc, cmd, half, proc, started, queue, outcome, past, harm>>
     \/ /\ TearTree(Job) /\ Harm /\ past' = past \cup CutShort
        /\ End(Failed) /\ proc' = Reaped(proc)

(* start() began with a stop(): now its own work.                           *)
Removed ==
  /\ pc = "remove" /\ todo = <<>>
  /\ \/ /\ cmd = "restart"
        /\ pc' = "jobs" /\ todo' = StartJobs /\ cmd' = "start"
        /\ UNCHANGED <<half, started, queue, outcome, proc>>
     \/ cmd = "stop" /\ End("stopped") /\ proc' = Reaped(proc)
     \/ cmd = "start" /\ End("not started") /\ proc' = Reaped(proc)
  /\ UNCHANGED <<disk, past, harm>>

-----------------------------------------------------------------------------
(* The environment.                                                         *)

(* -i PIDFILE: some time after its start a daemon writes its pid there.     *)
WritePidFile ==
  \E pid \in Pids :
    /\ Daemon(pid)
    /\ LET n == proc[pid][1]  d == proc[pid][2] IN
       /\ dirs[NodeDir(n)] # "absent" /\ pidfile[n][d] # pid
       /\ pidfile' = [pidfile EXCEPT ![n] = [@ EXCEPT ![d] = pid]]
    /\ UNCHANGED <<pc, todo, cmd, half, dirs, meta, proc, started, queue, outcome, past, harm>>

(* A child of the running command stays a zombie until it is polled.        *)
Die ==
  \E pid \in Pids :
    /\ Daemon(pid)
    /\ proc' = [proc EXCEPT ![pid] =
                  IF \E i \in 1..Len(started) : started[i][2] = pid THEN Zombie ELSE Free]
    /\ Harm /\ Note("died")
    /\ UNCHANGED <<pc, todo, cmd, half, disk, started, queue, outcome>>

(* Some time after the SIGTERM the process ends: at once, or when its       *)
(* sender has given up on it.                                               *)
Obey ==
  \E pid \in Pids :
    /\ Signalled(pid) /\ proc[pid] \notin {Free, Zombie}
    /\ proc' = Killed(pid)
    /\ UNCHANGED <<pc, todo, cmd, half, disk, started, queue, outcome, past, harm>>

(* Somebody else makes one of the paths.  "late": after the command looked  *)
(* at it, and before it makes or removes it.                                *)
Late(p) == pc = "remove" \/ (pc = "jobs" /\ half = TRUE /\ p = Job)
Claim ==
  \E p \in Paths :
    /\ dirs[p] = "absent" /\ p[1] # "node" /\ Harm
    /\ dirs' = [dirs EXCEPT ![p] = "other"]
    /\ past' = past \cup (IF Late(p) THEN {"late"} ELSE {})
    /\ UNCHANGED <<pc, todo, cmd, half, meta, pidfile, proc, started, queue, outcome>>

(* A pid that nslab remembers is given to another program.  "reused": while *)
(* nslab waits for its process to obey.                                     *)
Remembered(pid) == \/ \E n \in N, d \in D : pid \in {meta[n][d], pidfile[n][d]}
                   \/ \E i \in 1..Len(queue) : pid = queue[i][2]
Reuse ==
  \E pid \in Pids :
    /\ proc[pid] = Free /\ \A q \in Pids : proc[q] # Stranger
    /\ Remembered(pid)
    /\ proc' = [proc EXCEPT ![pid] = Stranger]
    /\ past' = past \cup (IF Signalled(pid) THEN {"reused"} ELSE {})
    /\ UNCHANGED <<pc, todo, cmd, half, disk, started, queue, outcome, harm>>

(* SIGKILL.  "early": a daemon is alive that no record names yet.           *)
Unrecorded == \E pid \in Pids :
  Daemon(pid) /\ pid \notin {meta[proc[pid][1]][proc[pid][2]], pidfile[proc[pid][1]][proc[pid][2]]}
Kill ==
  /\ pc # "idle" /\ Harm
  /\ End("killed") /\ proc' = Reaped(proc)
  /\ past' = past \cup CutShort \cup (IF Unrecorded THEN {"early"} ELSE {})
  /\ UNCHANGED disk

(* /run and /var/run are gone after a reboot, /etc/frr is not.              *)
Reboot ==
  /\ Harm /\ End("killed")
  /\ past' = past \cup CutShort
  /\ dirs' = [p \in Paths |-> IF p[1] = "vty" THEN dirs[p] ELSE "absent"]
  /\ meta' = NoRecords /\ pidfile' = NoRecords
  /\ proc' = [pid \in Pids |-> Free]

-----------------------------------------------------------------------------
(* Specification.                                                           *)

(* Another configuration, or the administrator, may own any of the paths.   *)
Init ==
  /\ pc = "idle" /\ todo = <<>> /\ cmd = "none" /\ half = FALSE
  /\ dirs \in [Paths -> {"absent", "other"}]
  /\ \A n \in N : dirs[NodeDir(n)] = "absent"
  /\ meta = NoRecords /\ pidfile = NoRecords
  /\ proc = [pid \in Pids |-> Free]
  /\ started = <<>> /\ queue = <<>> /\ outcome = "none" /\ past = {} /\ harm = 0

Command == \/ Start \/ FindDirectory \/ MakeDirectory \/ WriteMarker \/ Spawn
           \/ WaitStarted \/ SaveMetadata \/ Started \/ Stop \/ ReadRecord \/ AllRead
           \/ SendTerm \/ Gone \/ SendKill \/ Terminated \/ ValidateAll \/ RemoveNext
           \/ Removed

Next == Command \/ Interrupt \/ WritePidFile \/ Die \/ Obey \/ Claim \/ Reuse \/ Kill \/ Reboot

Spec == Init /\ [][Next]_vars

-----------------------------------------------------------------------------
(* Properties.                                                              *)

(* A directory of another configuration or of the administrator is never    *)
(* taken over or removed, not even by the rollback of a start() that met it *)
(* half way: _cleanup_deployment validates everything first.  The exception *)
(* is a path that somebody makes just then: after start() found it absent   *)
(* and before its mkdir, or after the validation and before the removal.    *)
OthersKept ==
  [][\A p \in Paths : dirs[p] = "other" =>
       dirs'[p] = "other" \/ Reboot \/ "late" \in past]_vars

(* After a stop() that returned, and after a start() that failed or was     *)
(* cancelled and whose rollback ran through, no daemon of the deployment    *)
(* runs and nothing of it is left on disk; a rollback that itself fails, at *)
(* a path of somebody else or at a second signal, has ended the daemons     *)
(* first; and a stop() that fails leaves a daemon only with its records.    *)
(* The exceptions: a start was killed before the daemon it had just spawned *)
(* was recorded anywhere, or a signal hit the spawn or the termination.     *)
Orphans == {pid \in Pids : Daemon(pid)}
StopIsComplete ==
  pc = "idle" /\ past \cap {"early", "lost"} = {}
    => /\ outcome \in {"stopped", "not started"} => Orphans = {} /\ Now = "none"
       /\ outcome = "rollback failed" => Orphans = {}
       /\ outcome = "not stopped" /\ Now = "none" => Orphans = {}

(* A process of somebody else gets a SIGTERM only over a record that went   *)
(* stale: its daemon died by itself, or a command was cut short after the   *)
(* daemons were terminated and before their records were removed; and a     *)
(* SIGKILL only over such a record, or when it was given the pid of a       *)
(* daemon that obeyed while nslab was waiting for just that.                *)
StrangersSpared ==
  /\ "termed" \in past => past \cap {"died", "stale"} # {}
  /\ "shot" \in past => past \cap {"died", "stale", "reused"} # {}

(* A deployment is refused only because a path belongs to somebody else, or *)
(* because a command was cut between a directory and its marker, or while   *)
(* it removed a tree; no sequence of other failures gets there.             *)
RefusedForCause ==
  outcome = "refused" => "cut" \in past \/ \E p \in Paths : dirs[p] = "other"

(* When start() returns every daemon of every node is recorded, and its pid *)
(* is the daemon's or has since been given to another program.              *)
StartedIsReady ==
  pc = "idle" /\ outcome = "started" /\ "died" \notin past
    => \A n \in N, d \in D : /\ meta[n][d] # NoPid
                           /\ proc[meta[n][d]] \in {<<n, d>>, Stranger}

(* The comment in _read_records: a crash between spawning a daemon and      *)
(* writing metadata must be recoverable by destroy, over the pid files.     *)
(* The daemon writes its pid file some time after the spawn, and a stop()   *)
(* that comes first removes the directory and leaves the daemon running.    *)
CrashIsRecoverable ==
  pc = "idle" /\ outcome = "stopped" /\ "lost" \notin past => Orphans = {}
=============================================================================
