-------------------------- MODULE DeploymentLock ---------------------------
(***************************************************************************)
(* state.DeploymentLock: flock(LOCK_EX | LOCK_NB) on NAME.lock, polled up  *)
(* to a monotonic deadline.  The lock belongs to the open file description, *)
(* so it outlives a killed holder for as long as a helper that the holder  *)
(* forked, and that never execs, keeps the inherited descriptor open       *)
(* (pyroute2's NSPopen servers are such helpers).                          *)
(*                                                                         *)
(* Time is the number of poll intervals left to each invocation's deadline *)
(* and to the end of its sleep; a tick may come at any moment.             *)
(***************************************************************************)
EXTENDS Naturals

CONSTANTS Procs,         \* nslab invocations
          Timeout,       \* deadline, in ticks after the lock file is open
          Poll,          \* _LOCK_POLL_INTERVAL, in ticks
          Nobody

ASSUME TimeAssumption == Timeout \in Nat /\ Poll \in Nat \ {0}
ASSUME NobodyAssumption == Nobody \notin Procs

VARIABLES
  pc,                    \* where each invocation is
  open,                  \* invocations whose own descriptor is open
  heirs,                 \* invocations with a forked helper that inherited it
  holder,                \* whose file description has the flock
  left,                  \* ticks to the deadline
  sleep                  \* ticks to the end of the sleep

vars == <<pc, open, heirs, holder, left, sleep>>

Outside == {"out", "refused", "failed", "released"}
Inside  == {"inside", "unlocked"}
Labels  == Outside \cup Inside \cup {"opened", "poll", "contended", "sleeping"}

At(p, label) == pc[p] = label
Goto(p, label) == pc' = [pc EXCEPT ![p] = label]
Least(a, b) == IF a < b THEN a ELSE b

(* max(0, n - 1).                                                           *)
Elapse(n) == IF n = 0 THEN 0 ELSE n - 1

(* close(): the flock goes with the last reference to the description.      *)
(* CloseByName: the lock is a file that outlives its holder.                *)
CloseByName(p) == open' = open \ {p} /\ UNCHANGED holder
Close(p) ==
  /\ open' = open \ {p}
  /\ holder' = IF holder = p /\ p \notin heirs THEN Nobody ELSE holder

(* __enter__ leaves without the lock: its finally block closes the file.    *)
(* LeaveOpen: without the finally.                                          *)
LeaveOpen(p, label) == Goto(p, label) /\ UNCHANGED <<open, heirs, holder, left, sleep>>
GiveUp(p, label) == Goto(p, label) /\ Close(p) /\ UNCHANGED <<heirs, left, sleep>>

-----------------------------------------------------------------------------
(* __enter__                                                                *)

(* While an earlier helper lives the invocation that forked it is not       *)
(* started again: a new command is a new process.                           *)
Open(p) ==
  /\ pc[p] \in Outside /\ p \notin heirs
  /\ \/ Goto(p, "opened") /\ open' = open \cup {p}
     \/ Goto(p, "failed") /\ UNCHANGED open
  /\ UNCHANGED <<heirs, holder, left, sleep>>

SetDeadline(p) ==
  /\ At(p, "opened")
  /\ \/ /\ Goto(p, "poll")
        /\ left' = [left EXCEPT ![p] = Timeout]
        /\ UNCHANGED <<open, heirs, holder, sleep>>
     \/ GiveUp(p, "failed")

TryFlock(p) ==
  /\ At(p, "poll")
  /\ \/ /\ holder = Nobody
        /\ holder' = p /\ Goto(p, "inside")
        /\ UNCHANGED <<open, heirs, left, sleep>>
     \/ /\ holder # Nobody
        /\ Goto(p, "contended")
        /\ UNCHANGED <<open, heirs, holder, left, sleep>>
     \/ GiveUp(p, "failed")

(* Never: nobody looks at the deadline.                                     *)
Never(p) == FALSE
Expired(p) == left[p] = 0

CheckDeadline(p) ==
  /\ At(p, "contended")
  /\ IF Expired(p) THEN GiveUp(p, "refused")
     ELSE /\ Goto(p, "sleeping")
          /\ sleep' = [sleep EXCEPT ![p] = Least(Poll, left[p])]
          /\ UNCHANGED <<open, heirs, holder, left>>

Wake(p) ==
  /\ At(p, "sleeping") /\ sleep[p] = 0
  /\ Goto(p, "poll")
  /\ UNCHANGED <<open, heirs, holder, left, sleep>>

(* KeyboardInterrupt or OperationCancelled anywhere in __enter__.           *)
Interrupt(p) ==
  /\ pc[p] \in {"opened", "poll", "contended", "sleeping"}
  /\ GiveUp(p, "out")

-----------------------------------------------------------------------------
(* The locked block, and __exit__.                                          *)

ForkHelper(p) ==
  /\ At(p, "inside")
  /\ heirs' = heirs \cup {p}
  /\ UNCHANGED <<pc, open, holder, left, sleep>>

HelperExits(p) ==
  /\ p \in heirs
  /\ heirs' = heirs \ {p}
  /\ holder' = IF holder = p /\ p \notin open THEN Nobody ELSE holder
  /\ UNCHANGED <<pc, open, left, sleep>>

(* LOCK_UN releases the description itself, whoever else still has it open. *)
Release(p) ==
  /\ At(p, "inside")
  /\ Goto(p, "unlocked")
  /\ holder' \in {Nobody, p}          \* LOCK_UN may fail
  /\ UNCHANGED <<open, heirs, left, sleep>>

CloseFile(p) ==
  /\ At(p, "unlocked")
  /\ Goto(p, "released") /\ Close(p)
  /\ UNCHANGED <<heirs, left, sleep>>

Crash(p) ==
  /\ pc[p] \notin Outside
  /\ Goto(p, "out") /\ Close(p)
  /\ UNCHANGED <<heirs, left, sleep>>

Tick ==
  /\ left' = [p \in Procs |-> Elapse(left[p])]
  /\ sleep' = [p \in Procs |-> Elapse(sleep[p])]
  /\ <<left, sleep>>' # <<left, sleep>>
  /\ UNCHANGED <<pc, open, heirs, holder>>

-----------------------------------------------------------------------------
(* Specification.                                                           *)

Init ==
  /\ pc = [p \in Procs |-> "out"]
  /\ open = {} /\ heirs = {} /\ holder = Nobody
  /\ left = [p \in Procs |-> 0] /\ sleep = [p \in Procs |-> 0]

Enter(p) == SetDeadline(p) \/ TryFlock(p) \/ CheckDeadline(p) \/ Wake(p)
Leave(p) == Release(p) \/ CloseFile(p)

Next ==
  \/ \E p \in Procs : \/ Open(p) \/ Enter(p) \/ Interrupt(p)
                      \/ ForkHelper(p) \/ HelperExits(p) \/ Leave(p) \/ Crash(p)
  \/ Tick

Spec == Init /\ [][Next]_vars

(* Time passes and a process in __enter__ is scheduled.  Nothing is assumed *)
(* of holders: a locked block may take for ever.                            *)
FairSpec == Spec /\ WF_vars(Tick) /\ \A p \in Procs : WF_vars(Enter(p))

-----------------------------------------------------------------------------
(* Properties.                                                              *)

(* Every variable has its type.                                             *)
TypeOK ==
  /\ pc \in [Procs -> Labels]
  /\ open \subseteq Procs /\ heirs \subseteq Procs
  /\ holder \in Procs \cup {Nobody}
  /\ left \in [Procs -> 0..Timeout] /\ sleep \in [Procs -> 0..Timeout]

(* Two invocations are never in their locked blocks together, and a lock    *)
(* that is held has a live reference: a crash cannot leave it behind for    *)
(* good (state.py:442-527).                                                 *)
Exclusion ==
  /\ \A p \in Procs : At(p, "inside") => holder = p
  /\ holder # Nobody => holder \in open \cup heirs

(* __enter__ and __exit__ leave no descriptor open when they end without    *)
(* the lock.                                                                *)
NoDescriptorLeft == \A p \in open : pc[p] \notin Outside

(* While someone else is in the locked block nobody is let in, but an       *)
(* invocation that waits always gets its answer: the lock, a refusal at the *)
(* deadline, or an error.                                                   *)
Waiting(p) == pc[p] \in {"opened", "poll", "contended", "sleeping"}
WaitersAreAnswered == \A p \in Procs : Waiting(p) ~> ~Waiting(p)
=============================================================================
