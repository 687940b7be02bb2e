---------------------------- MODULE ExecProcess -----------------------------
(***************************************************************************)
(* Pyroute2Backend.execute and _spawn_nspopen: one command in a namespace, *)
(* while SIGINT and SIGTERM may arrive between any two steps.  A signal    *)
(* that is not blocked is tripped at once and raises KeyboardInterrupt or  *)
(* OperationCancelled at the next step of the interpreter; one that is     *)
(* blocked stays pending until the mask is restored.  pthread_sigmask      *)
(* changes the mask first and looks for tripped signals then.              *)
(***************************************************************************)
EXTENDS Naturals, FiniteSets

CONSTANTS MaxFailures    \* bound on the system calls that fail

Signals == {"SIGINT", "SIGTERM"}

VARIABLES
  pc,
  mask,                  \* the mask of nslab: "open" or "blocked"
  pending, tripped,      \* signals the kernel, the interpreter holds
  arrived,               \* signals sent so far, each at most once
  failures,              \* calls that failed
  target,                \* the command: none, running, deaf (signals blocked), ended
  held,                  \* what is to be given back: process, pidfd, stdin
  stored,                \* an error kept until the mask is restored
  flags,                 \* signals_blocked, mask_restore_completed,
                         \* release_signals_blocked
  bodyError              \* none, error, or a signal

vars == <<pc, mask, pending, tripped, arrived, failures, target, held, stored, flags, bodyError>>

-----------------------------------------------------------------------------
(* Signals and the interpreter.                                             *)

Goto(label) == pc' = label
Fails == failures < MaxFailures /\ failures' = failures + 1

(* The handler of the lower signal runs first; the other stays tripped.     *)
First(s) == IF "SIGINT" \in s THEN "SIGINT" ELSE "SIGTERM"

Arrive ==
  /\ pc # "out"
  /\ \E s \in Signals \ arrived :
       /\ arrived' = arrived \cup {s}
       /\ IF mask = "open" THEN tripped' = tripped \cup {s} /\ UNCHANGED pending
          ELSE pending' = pending \cup {s} /\ UNCHANGED tripped
  /\ UNCHANGED <<pc, mask, failures, target, held, stored, flags, bodyError>>

(* pthread_sigmask: the new mask, and the signals it lets through or that   *)
(* were tripped before it.                                                  *)
Through == IF mask = "blocked" THEN tripped \cup pending ELSE tripped
Block ==
  /\ mask' = "blocked"
  /\ tripped' = tripped \ {First(tripped)} /\ UNCHANGED pending
Restore ==
  /\ mask' = "open" /\ pending' = {}
  /\ tripped' = Through \ {First(Through)}

Calm == tripped = {}     \* no handler is due: a step of the program
NoSignal == UNCHANGED <<mask, pending, tripped, arrived>>

-----------------------------------------------------------------------------
(* Creation, with both signals blocked.  Errors are stored.                 *)

Enter ==
  /\ pc = "enter"
  /\ Block
  /\ IF Calm THEN Goto("dup") /\ UNCHANGED bodyError
     ELSE Goto("out") /\ bodyError' = First(tripped)
  /\ flags' = {"signals_blocked"}
  /\ UNCHANGED <<arrived, failures, target, held, stored>>

Store(label) == Goto(label) /\ stored' = TRUE /\ Fails /\ UNCHANGED held

DupStdin ==
  /\ pc = "dup"
  /\ \/ Goto("factory") /\ UNCHANGED <<held, stored, failures>>     \* captured output
     \/ Goto("factory") /\ held' = held \cup {"stdin"} /\ UNCHANGED <<stored, failures>>
     \/ Store("restore")
  /\ NoSignal /\ UNCHANGED <<target, flags, bodyError>>

(* The target is born with nslab's mask, which preexec_fn opens.            *)
(* Inherited: without the preexec_fn.                                       *)
Inherited == IF mask = "blocked" THEN "deaf" ELSE "running"
Born == "running"

Factory ==
  /\ pc = "factory"
  /\ \/ /\ held' = held \cup {"process"} /\ target' = Born
        /\ Goto("close dup") /\ UNCHANGED <<stored, failures>>
     \/ Store("close dup") /\ UNCHANGED target
  /\ NoSignal /\ UNCHANGED <<flags, bodyError>>

CloseDup ==
  /\ pc = "close dup"
  /\ held' = held \ {"stdin"}
  /\ Goto(IF "process" \in held THEN "pidfd" ELSE "restore")
  /\ \/ UNCHANGED <<stored, failures>>
     \/ "stdin" \in held /\ stored' = TRUE /\ Fails
  /\ NoSignal /\ UNCHANGED <<target, flags, bodyError>>

OpenPidfd ==
  /\ pc = "pidfd"
  /\ \/ Goto("restore") /\ held' = held \cup {"pidfd"} /\ UNCHANGED <<stored, failures>>
     \/ Store("restore")
  /\ NoSignal /\ UNCHANGED <<target, flags, bodyError>>

-----------------------------------------------------------------------------
(* The body: restore_signal_mask, communicate, block_release_signals.       *)

(* CommunicateBlocked: with the mask restored only at the end.              *)
CommunicateBlocked ==
  /\ pc = "restore"
  /\ Goto(IF stored THEN "handle" ELSE "communicate")
  /\ bodyError' = IF stored THEN "error" ELSE "none"
  /\ NoSignal /\ UNCHANGED <<failures, target, held, stored, flags>>
RestoreMask ==
  /\ pc = "restore"
  /\ Restore
  /\ IF Through # {} THEN /\ Goto("handle") /\ bodyError' = First(Through)
                          /\ flags' = {}
     ELSE /\ flags' = {"mask_restore_completed"}
          /\ bodyError' = IF stored THEN "error" ELSE "none"
          /\ Goto(IF stored THEN "handle" ELSE "communicate")
  /\ UNCHANGED <<arrived, failures, target, held, stored>>

Communicate ==
  /\ pc = "communicate" /\ Calm
  /\ target = "ended" /\ Goto("block release")
  /\ NoSignal /\ UNCHANGED <<target, held, stored, flags, bodyError, failures>>

CommunicateFails ==
  /\ pc = "communicate" /\ Calm /\ Fails
  /\ Goto("handle") /\ bodyError' = "error"
  /\ NoSignal /\ UNCHANGED <<target, held, stored, flags>>

(* Tripped in the body: caught by the except BaseException around it.       *)
RaiseInBody ==
  /\ pc \in {"communicate", "block release"} /\ ~Calm
  /\ bodyError' = First(tripped) /\ tripped' = tripped \ {First(tripped)}
  /\ Goto("handle")
  /\ UNCHANGED <<mask, pending, arrived, failures, target, held, stored, flags>>

BlockRelease ==
  /\ pc = "block release"
  /\ Block
  /\ Goto("handle")
  /\ IF Calm THEN /\ flags' = flags \cup {"signals_blocked", "release_signals_blocked"}
                  /\ UNCHANGED bodyError
     ELSE bodyError' = First(tripped) /\ UNCHANGED flags
  /\ UNCHANGED <<arrived, failures, target, held, stored>>

-----------------------------------------------------------------------------
(* The cleanup.                                                             *)

(* Between the body and the mask, and wherever the mask is open again, a    *)
(* signal escapes from the generator: nothing is cleaned up any more.       *)
Escape ==
  /\ pc \in {"handle", "terminate", "release", "close pidfd", "restore again"} /\ ~Calm
  /\ bodyError' = First(tripped) /\ tripped' = tripped \ {First(tripped)}
  /\ Goto("out")
  /\ UNCHANGED <<mask, pending, arrived, failures, target, held, stored, flags>>

(* Without a process there is nothing to protect.                           *)
BlockForCleanup ==
  /\ pc = "handle"
  /\ Goto(IF "process" \in held THEN "terminate" ELSE "restore again")
  /\ IF "process" \in held /\ "signals_blocked" \notin flags
       THEN /\ Block
            /\ IF Calm THEN flags' = flags \cup {"signals_blocked"} /\ UNCHANGED bodyError
               ELSE bodyError' = First(tripped) /\ UNCHANGED flags
       ELSE Calm /\ UNCHANGED <<mask, pending, tripped, flags, bodyError>>
  /\ UNCHANGED <<arrived, failures, target, held, stored>>

(* A failed body ends the target, unless communicate saw it end.  A deaf    *)
(* target goes on.                                                          *)
EndsTarget == bodyError # "none" /\ "release_signals_blocked" \notin flags

Terminate ==
  /\ pc = "terminate" /\ Calm
  /\ \/ /\ target' = IF EndsTarget /\ target = "running" THEN "ended" ELSE target
        /\ UNCHANGED failures
     \/ EndsTarget /\ Fails /\ UNCHANGED target
  /\ Goto("release")
  /\ NoSignal /\ UNCHANGED <<held, stored, flags, bodyError>>

Release ==
  /\ pc = "release" /\ Calm
  /\ \/ held' = held \ {"process"} /\ UNCHANGED failures
     \/ Fails /\ UNCHANGED held
  /\ Goto("close pidfd")
  /\ NoSignal /\ UNCHANGED <<target, stored, flags, bodyError>>

ClosePidfd ==
  /\ pc = "close pidfd" /\ Calm
  /\ held' = held \ {"pidfd"}
  /\ \/ UNCHANGED failures
     \/ "pidfd" \in held /\ Fails
  /\ Goto("restore again")
  /\ NoSignal /\ UNCHANGED <<target, stored, flags, bodyError>>

(* The mask is restored once more if it is known to be blocked.             *)
(* Unrestored: it is taken as restored by the body.                         *)
Unrestored == "mask_restore_completed" \notin flags
Restores == "signals_blocked" \in flags \/ "mask_restore_completed" \notin flags

(* Swallow: a cancellation that comes now is dropped.                       *)
Swallow ==
  /\ pc = "restore again" /\ Calm
  /\ Restore /\ Goto("out")
  /\ UNCHANGED <<arrived, failures, target, held, stored, flags, bodyError>>
RestoreAgain ==
  /\ pc = "restore again" /\ Calm
  /\ IF Restores
       THEN /\ Restore
            /\ bodyError' = IF Through # {} THEN First(Through) ELSE bodyError
       ELSE UNCHANGED <<mask, pending, tripped, bodyError>>
  /\ Goto("out")
  /\ UNCHANGED <<arrived, failures, target, held, stored, flags>>

(* The command ends by itself, or over a signal it gets from the terminal.  *)
TargetEnds ==
  /\ target = "running" /\ target' = "ended"
  /\ UNCHANGED <<pc, mask, pending, tripped, arrived, failures, held, stored, flags, bodyError>>

-----------------------------------------------------------------------------
(* Specification.                                                           *)

Init ==
  /\ pc = "enter" /\ mask = "open"
  /\ pending = {} /\ tripped = {} /\ arrived = {} /\ failures = 0
  /\ target = "none" /\ held = {} /\ stored = FALSE /\ flags = {} /\ bodyError = "none"

Program == \/ Enter \/ DupStdin \/ Factory \/ CloseDup \/ OpenPidfd \/ RestoreMask
           \/ Communicate \/ RaiseInBody \/ BlockRelease \/ Escape
           \/ BlockForCleanup \/ Terminate \/ Release \/ ClosePidfd \/ RestoreAgain

Next == Program \/ CommunicateFails \/ Arrive \/ TargetEnds

Spec == Init /\ [][Next]_vars

(* The program runs; the command need not end and no signal need come.      *)
FairSpec == Spec /\ WF_vars(Program)

-----------------------------------------------------------------------------
(* Properties.                                                              *)

Events == Cardinality(arrived) + failures

(* No single signal and no single failing call leaves the helper process,   *)
(* a descriptor or the command behind, wherever it strikes (a helper whose  *)
(* own release failed excepted); it takes two.                              *)
NothingLeftBehind ==
  pc = "out" /\ Events < 2
    => held \subseteq {"process"} /\ (held # {} => arrived = {})
       /\ (held = {} => target \in {"none", "ended"})

(* The caller gets its signal mask back.  A signal that the very first call *)
(* raises leaves it blocked, before anything was made; otherwise it takes   *)
(* two events.                                                              *)
MaskRestored ==
  pc = "out" /\ mask = "blocked" => (held = {} /\ target = "none") \/ Events >= 2

(* A signal that came while both were blocked is not forgotten: execute     *)
(* returns normally only if none came, or with one that is about to raise.  *)
NoSignalLost ==
  pc = "out" /\ bodyError = "none" => pending = {} /\ tripped = arrived

(* After SIGINT or SIGTERM execute ends, whether or not the command would   *)
(* have ended by itself.                                                    *)
SignalEnds == arrived # {} ~> pc = "out"
=============================================================================
