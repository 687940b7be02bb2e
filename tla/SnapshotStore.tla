--------------------------- MODULE SnapshotStore ---------------------------
(***************************************************************************)
(* What state.StateStore promises about the one file that journals a       *)
(* deployment, /var/lib/nslab/NAME.json.  The file is described by what a  *)
(* load() would read now and by what it could read after a power loss: a   *)
(* directory entry that was replaced or unlinked but not yet fsynced may   *)
(* come back.                                                              *)
(*                                                                         *)
(* save() and delete() end in one of four ways the lifecycle service can   *)
(* tell apart; StateStore.tla models the system calls behind them and is   *)
(* checked to implement this module.                                       *)
(***************************************************************************)
CONSTANT NoSnapshot      \* what load() returns when the file does not exist

VARIABLES
  disk,                  \* the snapshot load() reads now
  durable                \* the snapshots a power loss may leave behind

storeVars == <<disk, durable>>

(***************************************************************************)
(* "ok"        save() or delete() returned                                 *)
(* "plain"     STATE_WRITE_FAILED: the file was not touched                *)
(* "uncertain" STATE_COMMIT_OUTCOME_UNKNOWN, STATE_DURABILITY_UNCERTAIN    *)
(* "interrupt" KeyboardInterrupt or OperationCancelled, raised as it is    *)
(***************************************************************************)
WriteOutcomes  == {"ok", "plain", "uncertain", "interrupt"}
DeleteOutcomes == {"ok", "uncertain", "interrupt"}

(* Two wrong forms of Commit and Linger: without the directory fsync, and   *)
(* with a rename that is not among what a power loss may leave.             *)
SyncForgotten(new)   == disk' = new /\ durable' = durable \cup {new}
LingerUnnoticed(new) == disk' = new /\ UNCHANGED durable

Untouched     == UNCHANGED storeVars
Commit(new)   == disk' = new /\ durable' = {new}
Linger(new)   == disk' = new /\ durable' = durable \cup {new}

(* An error the caller cannot classify leaves the old entry, the new one,   *)
(* or the new one until a power loss.                                       *)
InDoubt(new) == Untouched \/ Linger(new) \/ Commit(new)

Save(new, outcome) ==
  \/ outcome = "ok"    /\ Commit(new)
  \/ outcome = "plain" /\ Untouched
  \/ outcome \in {"uncertain", "interrupt"} /\ InDoubt(new)

(* delete(): a file that is not there is a success that syncs nothing.      *)
Delete(outcome) ==
  \/ outcome = "ok" /\ disk = NoSnapshot /\ Untouched
  \/ outcome = "ok" /\ disk # NoSnapshot /\ Commit(NoSnapshot)
  \/ outcome \in {"uncertain", "interrupt"} /\ InDoubt(NoSnapshot)

(* The machine goes down; the file system keeps one of the entries.         *)
LosePower == \E left \in durable : Commit(left)
=============================================================================
