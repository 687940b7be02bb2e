------------------------- MODULE ExecProcess_proofs -------------------------
(***************************************************************************)
(* For any number of failing calls: whichever single signal or failing     *)
(* call strikes execute(), nothing is left behind and the signal mask is   *)
(* restored, and no signal is forgotten however many strike.               *)
(***************************************************************************)
EXTENDS ExecProcess, FiniteSetTheorems, TLAPS

-----------------------------------------------------------------------------
(* The inductive invariant.                                                 *)

Creation == {"dup", "factory", "close dup", "pidfd", "restore"}
Body     == {"communicate", "block release"}
Cleanup  == {"terminate", "release", "close pidfd"}
Labels   == Creation \cup Body \cup Cleanup \cup {"enter", "handle", "restore again", "out"}

TypeOK ==
  /\ pc \in Labels
  /\ mask \in {"open", "blocked"}
  /\ pending \in SUBSET Signals /\ tripped \in SUBSET Signals
  /\ arrived \in SUBSET Signals
  /\ failures \in Nat
  /\ target \in {"none", "running", "ended"}
  /\ held \in SUBSET {"process", "pidfd", "stdin"}
  /\ stored \in BOOLEAN
  /\ flags \in SUBSET {"signals_blocked", "mask_restore_completed", "release_signals_blocked"}
  /\ bodyError \in Signals \cup {"none", "error"}

(* Two events of any kind: Events >= 2 without counting.                    *)
Twice == \/ Signals \subseteq arrived
         \/ failures # 0 /\ arrived # {}
         \/ failures \notin {0, 1}

(* No handler has raised anything yet.                                      *)
Unraised == arrived \subseteq pending \cup tripped

(* A signal waits in the kernel or in the interpreter, never in both, and   *)
(* only a blocked one waits in the kernel.                                  *)
SignalsInv ==
  /\ pending \cup tripped \subseteq arrived
  /\ pending \cap tripped = {}
  /\ mask = "open" => pending = {}
  /\ mask = "blocked" /\ tripped # {} => Signals \subseteq arrived

(* Whatever went wrong so far is known from the error it left.              *)
ErrorInv ==
  /\ bodyError = "none" => Unraised
  /\ bodyError = "error" => failures # 0
  /\ bodyError \in Signals => ~Unraised
  /\ stored = TRUE => failures # 0

(* What is held while the process is made, with both signals blocked.       *)
CreationInv ==
  /\ pc = "enter" => /\ mask = "open" /\ flags = {} /\ held = {} /\ stored = FALSE
                     /\ target = "none" /\ bodyError = "none"
  /\ pc \in Creation => /\ mask = "blocked" /\ tripped = {}
                        /\ flags = {"signals_blocked"} /\ bodyError = "none"
  /\ pc = "dup" => held = {} /\ stored = FALSE
  /\ pc = "factory" => held \subseteq {"stdin"} /\ stored = FALSE
  /\ pc = "close dup" => "pidfd" \notin held /\ ("process" \in held \/ stored = TRUE)
  /\ pc = "pidfd" => held = {"process"}
  /\ pc = "restore" => stored = TRUE \/ held = {"process", "pidfd"}

(* The command and its process come together, and the pidfd after them.     *)
TargetInv ==
  /\ pc \in Creation \cup Body \cup {"handle", "terminate"} =>
       (target = "none" <=> "process" \notin held)
  /\ pc \notin Creation => "stdin" \notin held
  /\ pc \notin Creation /\ target = "none" => held = {}
  /\ pc = "restore" => held = {} \/ ("process" \in held /\ "stdin" \notin held)

BodyInv ==
  /\ pc \in Body => /\ mask = "open" /\ flags = {"mask_restore_completed"}
                    /\ bodyError = "none" /\ held = {"process", "pidfd"}
  /\ pc = "block release" => target = "ended"

(* A body that ended without an error has blocked the signals again over a  *)
(* command that had ended.                                                  *)
CleanupInv ==
  /\ pc \in Cleanup \cup {"handle", "restore again"} /\ bodyError = "none" =>
       "release_signals_blocked" \in flags
  /\ pc \in Cleanup \cup {"handle", "restore again"} /\ "release_signals_blocked" \in flags =>
       /\ "signals_blocked" \in flags /\ target = "ended"
  /\ pc \in Cleanup => target # "none"
  /\ pc = "handle" => /\ "signals_blocked" \in flags => "release_signals_blocked" \in flags
                      /\ "signals_blocked" \in flags => mask = "blocked"
                      /\ mask = "blocked" => "process" \in held
  /\ pc = "handle" /\ tripped # {} => Twice
  /\ pc = "terminate" => "process" \in held

(* With one event at most the cleanup runs to its end, mask blocked.        *)
OnceInv == ~Twice =>
  /\ pc \in Cleanup => mask = "blocked" /\ "signals_blocked" \in flags
  /\ pc \in {"release", "close pidfd"} => target = "ended"
  /\ pc = "restore again" =>
       /\ target \in {"none", "ended"}
       /\ mask = "blocked" => "signals_blocked" \in flags
  /\ pc \in {"close pidfd", "restore again"} /\ "process" \in held => failures # 0
  /\ pc = "restore again" => held \subseteq {"process"}
  /\ pc = "out" => /\ held \subseteq {"process"}
                   /\ held # {} => failures # 0
                   /\ target \in {"none", "ended"}
                   /\ mask = "blocked" => held = {} /\ target = "none"

(* execute() returns normally only if no signal came.                       *)
OutInv == pc = "out" /\ bodyError = "none" => arrived = {}

IInv == TypeOK /\ SignalsInv /\ ErrorInv /\ CreationInv /\ TargetInv /\ BodyInv /\ CleanupInv /\ OnceInv /\ OutInv

-----------------------------------------------------------------------------
(* The steps.                                                               *)

(* A failing call is counted; a raised handler is that of a tripped signal. *)
LEMMA FailureCounts ==
  ASSUME failures \in Nat, Fails
  PROVE  failures' \in Nat /\ failures' # 0 /\ (failures # 0 => failures' \notin {0, 1})
  BY DEF Fails

LEMMA FirstIsTripped ==
  ASSUME NEW s \in SUBSET Signals, s # {}
  PROVE  /\ First(s) \in s /\ First(s) \in Signals
         /\ s \ {First(s)} # {} => Signals \subseteq s
  BY DEF First, Signals

(* What the three ways to change what waits do to it.                       *)
LEMMA BlockMoves ==
  ASSUME TypeOK, SignalsInv, Block, UNCHANGED arrived
  PROVE  /\ SignalsInv' /\ mask' = "blocked"
         /\ tripped' # {} => Signals \subseteq arrived'
         /\ tripped # {} => ~Unraised' /\ First(tripped) \in Signals
         /\ tripped = {} => (Unraised' <=> Unraised) /\ tripped' = {}
  BY FirstIsTripped DEF TypeOK, SignalsInv, Block, Unraised

LEMMA RestoreMoves ==
  ASSUME TypeOK, SignalsInv, Restore, UNCHANGED arrived
  PROVE  /\ SignalsInv' /\ mask' = "open"
         /\ Through # {} => ~Unraised' /\ First(Through) \in Signals
         /\ Through = {} => tripped' = {} /\ pending = {} /\ (Unraised' <=> Unraised)
  BY FirstIsTripped DEF TypeOK, SignalsInv, Restore, Through, Unraised

LEMMA HandlerMoves ==
  ASSUME TypeOK, SignalsInv, tripped # {}, tripped' = tripped \ {First(tripped)},
         UNCHANGED <<mask, pending, arrived>>
  PROVE  /\ SignalsInv' /\ ~Unraised' /\ First(tripped) \in Signals
         /\ tripped' # {} => Signals \subseteq arrived'
  BY FirstIsTripped DEF TypeOK, SignalsInv, Unraised

LEMMA NoSignalMoves ==
  ASSUME SignalsInv, NoSignal
  PROVE  SignalsInv' /\ (Unraised' <=> Unraised)
  BY DEF SignalsInv, NoSignal, Unraised

LEMMA StepTyped == IInv /\ [Next]_vars => TypeOK'
<1> SUFFICES ASSUME IInv, [Next]_vars PROVE TypeOK'
  OBVIOUS
<1> USE DEF IInv, TypeOK, Labels, Creation, Body, Cleanup, Signals, Goto, NoSignal
<1>1. CASE Enter
  BY <1>1 DEF Enter, Calm, Block, First
<1>2. CASE DupStdin
  BY <1>2, FailureCounts DEF DupStdin, Store
<1>3. CASE Factory
  BY <1>3, FailureCounts DEF Factory, Born, Store
<1>4. CASE CloseDup
  BY <1>4, FailureCounts DEF CloseDup
<1>5. CASE OpenPidfd
  BY <1>5, FailureCounts DEF OpenPidfd, Store
<1>6. CASE RestoreMask
  BY <1>6 DEF RestoreMask, Restore, Through, First
<1>7. CASE Communicate
  BY <1>7 DEF Communicate
<1>8. CASE CommunicateFails
  BY <1>8, FailureCounts DEF CommunicateFails
<1>9. CASE RaiseInBody
  BY <1>9 DEF RaiseInBody, Calm, First
<1>10. CASE BlockRelease
  BY <1>10 DEF BlockRelease, Calm, Block, First
<1>11. CASE Escape
  BY <1>11 DEF Escape, Calm, First
<1>12. CASE BlockForCleanup
  BY <1>12 DEF BlockForCleanup, Calm, Block, First
<1>13. CASE Terminate
  BY <1>13, FailureCounts DEF Terminate, EndsTarget, Calm
<1>14. CASE Release
  BY <1>14, FailureCounts DEF Release, Calm
<1>15. CASE ClosePidfd
  BY <1>15, FailureCounts DEF ClosePidfd, Calm
<1>16. CASE RestoreAgain
  BY <1>16 DEF RestoreAgain, Restores, Restore, Through, First
<1>17. CASE Arrive
  BY <1>17 DEF Arrive
<1>18. CASE TargetEnds
  BY <1>18 DEF TargetEnds
<1>19. CASE UNCHANGED vars
  BY <1>19 DEF vars
<1> QED
  BY <1>1, <1>2, <1>3, <1>4, <1>5, <1>6, <1>7, <1>8, <1>9,
     <1>10, <1>11, <1>12, <1>13, <1>14, <1>15, <1>16, <1>17, <1>18, <1>19
  DEF Next, Program

LEMMA StepSignals == IInv /\ [Next]_vars => (SignalsInv /\ ErrorInv)'
<1> SUFFICES ASSUME IInv, [Next]_vars PROVE (SignalsInv /\ ErrorInv)'
  OBVIOUS
<1> USE DEF IInv, TypeOK, ErrorInv, CreationInv, Creation, BodyInv, Body, Signals, Goto
<1>1. CASE Enter
  BY <1>1, BlockMoves DEF Enter, Calm
<1>2. CASE DupStdin
  BY <1>2, NoSignalMoves, FailureCounts DEF DupStdin, Store
<1>3. CASE Factory
  BY <1>3, NoSignalMoves, FailureCounts DEF Factory, Born, Store
<1>4. CASE CloseDup
  BY <1>4, NoSignalMoves, FailureCounts DEF CloseDup
<1>5. CASE OpenPidfd
  BY <1>5, NoSignalMoves, FailureCounts DEF OpenPidfd, Store
<1>6. CASE RestoreMask
  BY <1>6, RestoreMoves DEF RestoreMask
<1>7. CASE Communicate
  BY <1>7, NoSignalMoves DEF Communicate
<1>8. CASE CommunicateFails
  BY <1>8, NoSignalMoves, FailureCounts DEF CommunicateFails
<1>9. CASE RaiseInBody
  BY <1>9, HandlerMoves DEF RaiseInBody, Calm
<1>10. CASE BlockRelease
  BY <1>10, BlockMoves DEF BlockRelease, Calm
<1>11. CASE Escape
  BY <1>11, HandlerMoves DEF Escape, Calm
<1>12. CASE BlockForCleanup
  BY <1>12, BlockMoves DEF BlockForCleanup, Calm, SignalsInv, Unraised
<1>13. CASE Terminate
  BY <1>13, NoSignalMoves, FailureCounts DEF Terminate, EndsTarget, Calm
<1>14. CASE Release
  BY <1>14, NoSignalMoves, FailureCounts DEF Release, Calm
<1>15. CASE ClosePidfd
  BY <1>15, NoSignalMoves, FailureCounts DEF ClosePidfd, Calm
<1>16. CASE RestoreAgain
  BY <1>16, RestoreMoves DEF RestoreAgain, Restores, SignalsInv, Unraised
<1>17. CASE Arrive
  <2>1. SignalsInv'
    BY <1>17 DEF Arrive, SignalsInv
  <2>2. ErrorInv'
    BY <1>17 DEF Arrive, Unraised
  <2> QED
    BY <2>1, <2>2
<1>18. CASE TargetEnds
  BY <1>18 DEF TargetEnds, SignalsInv, Unraised
<1>19. CASE UNCHANGED vars
  BY <1>19 DEF vars, SignalsInv, Unraised
<1> QED
  BY <1>1, <1>2, <1>3, <1>4, <1>5, <1>6, <1>7, <1>8, <1>9,
     <1>10, <1>11, <1>12, <1>13, <1>14, <1>15, <1>16, <1>17, <1>18, <1>19
  DEF Next, Program

(* Up to the end of the body.                                               *)
LEMMA StepBefore == IInv /\ [Next]_vars => (CreationInv /\ TargetInv /\ BodyInv)'
<1> SUFFICES ASSUME IInv, [Next]_vars PROVE (CreationInv /\ TargetInv /\ BodyInv)'
  OBVIOUS
<1> USE DEF IInv, TypeOK, Labels, Creation, Body, Cleanup, CreationInv, TargetInv,
       BodyInv, CleanupInv, OnceInv, Twice, Signals, Goto, NoSignal
<1>1. CASE Enter
  BY <1>1, BlockMoves DEF Enter, Calm
<1>2. CASE DupStdin
  BY <1>2, FailureCounts DEF DupStdin, Store
<1>3. CASE Factory
  BY <1>3, FailureCounts DEF Factory, Born, Store
<1>4. CASE CloseDup
  <2>1. /\ pc = "close dup" /\ pc' \in {"pidfd", "restore"}
        /\ "pidfd" \notin held /\ held' = held \ {"stdin"} /\ UNCHANGED target
    BY <1>4 DEF CloseDup
  <2>2. CreationInv'
    <3>1. pc' = "pidfd" => held' = {"process"}
      BY <1>4, <2>1, ZenonT(40) DEF CloseDup
    <3>2. pc' = "restore" => stored' = TRUE
      BY <1>4 DEF CloseDup
    <3> QED
      BY <1>4, <2>1, <3>1, <3>2 DEF CloseDup
  <2>3. TargetInv'
    <3>1. held' = {} \/ ("process" \in held' /\ "stdin" \notin held')
      BY <2>1
    <3>2. target = "none" <=> "process" \notin held'
      BY <2>1
    <3> QED
      BY <2>1, <3>1, <3>2
  <2> QED
    BY <1>4, <2>1, <2>2, <2>3
<1>5. CASE OpenPidfd
  BY <1>5, FailureCounts DEF OpenPidfd, Store
<1>6. CASE RestoreMask
  BY <1>6, RestoreMoves DEF RestoreMask
<1>7. CASE Communicate
  BY <1>7 DEF Communicate
<1>8. CASE CommunicateFails
  BY <1>8, FailureCounts DEF CommunicateFails
<1>9. CASE RaiseInBody
  BY <1>9, HandlerMoves DEF RaiseInBody, Calm
<1>10. CASE BlockRelease
  BY <1>10, BlockMoves DEF BlockRelease, Calm
<1>11. CASE Escape
  BY <1>11, HandlerMoves DEF Escape, Calm
<1>12. CASE BlockForCleanup
  BY <1>12, BlockMoves DEF BlockForCleanup, Calm
<1>13. CASE Terminate
  BY <1>13, FailureCounts DEF Terminate, EndsTarget, Calm
<1>14. CASE Release
  BY <1>14, FailureCounts DEF Release, Calm
<1>15. CASE ClosePidfd
  BY <1>15, FailureCounts DEF ClosePidfd, Calm
<1>16. CASE RestoreAgain
  BY <1>16, RestoreMoves DEF RestoreAgain, Restores
<1>17. CASE Arrive
  BY <1>17 DEF Arrive
<1>18. CASE TargetEnds
  BY <1>18 DEF TargetEnds
<1>19. CASE UNCHANGED vars
  BY <1>19 DEF vars
<1> QED
  BY <1>1, <1>2, <1>3, <1>4, <1>5, <1>6, <1>7, <1>8, <1>9,
     <1>10, <1>11, <1>12, <1>13, <1>14, <1>15, <1>16, <1>17, <1>18, <1>19
  DEF Next, Program

(* From the end of the body to the end of the command.                      *)
LEMMA StepAfter == IInv /\ [Next]_vars => (CleanupInv /\ OnceInv /\ OutInv)'
<1> SUFFICES ASSUME IInv, [Next]_vars PROVE (CleanupInv /\ OnceInv /\ OutInv)'
  OBVIOUS
<1> USE DEF IInv, TypeOK, SignalsInv, ErrorInv, Labels, Creation, Body, Cleanup, CreationInv,
       TargetInv, BodyInv, CleanupInv, OnceInv, OutInv, Twice, Signals, Unraised,
       Goto, NoSignal
<1>1. CASE Enter
  BY <1>1, BlockMoves DEF Enter, Calm
<1>2. CASE DupStdin
  BY <1>2, FailureCounts DEF DupStdin, Store
<1>3. CASE Factory
  BY <1>3, FailureCounts DEF Factory, Born, Store
<1>4. CASE CloseDup
  BY <1>4, FailureCounts DEF CloseDup
<1>5. CASE OpenPidfd
  BY <1>5, FailureCounts DEF OpenPidfd, Store
<1>6. CASE RestoreMask
  <2>1. /\ pc' \in {"handle", "communicate"} /\ mask' = "open"
        /\ flags' \in {{}, {"mask_restore_completed"}}
        /\ bodyError' # "none" \/ pc' = "communicate"
    BY <1>6, RestoreMoves DEF RestoreMask
  <2>2. pc' = "handle" /\ tripped' # {} => Twice'
    <3>1. CASE Through = {}
      BY <1>6, <3>1, RestoreMoves DEF RestoreMask
    <3>2. CASE Through # {}
      BY <1>6, <3>2, FirstIsTripped DEF RestoreMask, Restore, Through
    <3> QED
      BY <3>1, <3>2
  <2> QED
    BY <2>1, <2>2
<1>7. CASE Communicate
  BY <1>7 DEF Communicate
<1>8. CASE CommunicateFails
  BY <1>8, FailureCounts DEF CommunicateFails
<1>9. CASE RaiseInBody
  BY <1>9, HandlerMoves DEF RaiseInBody, Calm
<1>10. CASE BlockRelease
  <2>1. /\ mask' = "blocked" /\ pc' = "handle" /\ target = "ended" /\ held = {"process", "pidfd"}
        /\ UNCHANGED <<failures, target, held>>
    BY <1>10, BlockMoves DEF BlockRelease
  <2>2. CASE Calm
    <3>1. /\ flags' = flags \cup {"signals_blocked", "release_signals_blocked"}
          /\ tripped' = {} /\ bodyError' = bodyError
      BY <1>10, <2>2, BlockMoves DEF BlockRelease, Calm
    <3> QED
      BY <2>1, <3>1
  <2>3. CASE ~Calm
    <3>1. flags' = flags /\ flags = {"mask_restore_completed"} /\ bodyError' # "none"
      BY <1>10, <2>3, BlockMoves DEF BlockRelease, Calm
    <3>2. tripped' # {} => Twice'
      BY <1>10, BlockMoves DEF BlockRelease
    <3> QED
      BY <2>1, <3>1, <3>2
  <2> QED
    BY <2>2, <2>3
<1>11. CASE Escape
  <2>1. Twice' <=> Twice
    BY <1>11 DEF Escape
  <2>2. ~Twice => mask = "open" /\ pc = "restore again"
    BY <1>11 DEF Escape, Calm
  <2>3. bodyError' # "none" /\ pc' = "out" /\ UNCHANGED <<mask, failures, target, held>>
    BY <1>11, HandlerMoves DEF Escape, Calm
  <2>4. CleanupInv' /\ OutInv'
    BY <2>3
  <2>5. OnceInv'
    BY <2>1, <2>2, <2>3
  <2> QED
    BY <2>4, <2>5
<1>12. CASE BlockForCleanup
  BY <1>12, BlockMoves, ZenonT(40) DEF BlockForCleanup, Calm
<1>13. CASE Terminate
  BY <1>13, FailureCounts DEF Terminate, EndsTarget, Calm
<1>14. CASE Release
  BY <1>14, FailureCounts DEF Release, Calm
<1>15. CASE ClosePidfd
  BY <1>15, FailureCounts DEF ClosePidfd, Calm
<1>16. CASE RestoreAgain
  <2>1. /\ Twice' <=> Twice
        /\ mask' = "open" \/ (mask' = mask /\ "signals_blocked" \notin flags)
        /\ pc = "restore again" /\ pc' = "out" /\ UNCHANGED <<failures, target, held>>
    BY <1>16 DEF RestoreAgain, Restore, Restores
  <2>2. OnceInv'
    BY <2>1
  <2>3. OutInv'
    BY <1>16, RestoreMoves DEF RestoreAgain, Restores
  <2> QED
    BY <2>1, <2>2, <2>3
<1>17. CASE Arrive
  BY <1>17 DEF Arrive
<1>18. CASE TargetEnds
  BY <1>18 DEF TargetEnds
<1>19. CASE UNCHANGED vars
  BY <1>19 DEF vars
<1> QED
  BY <1>1, <1>2, <1>3, <1>4, <1>5, <1>6, <1>7, <1>8, <1>9,
     <1>10, <1>11, <1>12, <1>13, <1>14, <1>15, <1>16, <1>17, <1>18, <1>19
  DEF Next, Program

LEMMA InitInv == Init => IInv
<1> SUFFICES ASSUME Init PROVE IInv
  OBVIOUS
<1> USE DEF Init
<1>1. TypeOK
  BY DEF TypeOK, Labels
<1>2. SignalsInv /\ ErrorInv
  BY DEF SignalsInv, ErrorInv, Unraised, Signals
<1>3. CreationInv /\ TargetInv /\ BodyInv /\ CleanupInv
  BY DEF CreationInv, TargetInv, BodyInv, CleanupInv, Creation, Body, Cleanup
<1>4. OnceInv /\ OutInv
  BY DEF OnceInv, OutInv, Cleanup
<1> QED
  BY <1>1, <1>2, <1>3, <1>4 DEF IInv

(* Every reachable state of execute() satisfies the invariant.              *)
THEOREM Invariance == Spec => []IInv
<1>1. IInv /\ [Next]_vars => IInv'
  BY StepTyped, StepSignals, StepBefore, StepAfter DEF IInv
<1> QED
  BY InitInv, <1>1, PTL DEF Spec

-----------------------------------------------------------------------------
(* What it implies.                                                         *)

LEMMA SignalsFinite == IsFiniteSet(Signals) /\ Cardinality(Signals) = 2
<1>1. Signals = {"SIGINT"} \cup {"SIGTERM"} /\ "SIGTERM" \notin {"SIGINT"}
  BY DEF Signals
<1>2. IsFiniteSet({"SIGINT"}) /\ Cardinality({"SIGINT"}) = 1
  BY FS_Singleton
<1> QED
  BY <1>1, <1>2, FS_AddElement

(* Twice counts the events.                                                 *)
LEMMA TwoEvents == TypeOK => (Events < 2 <=> ~Twice)
<1> SUFFICES ASSUME TypeOK PROVE Events < 2 <=> ~Twice
  OBVIOUS
<1>1. arrived \in {{}, {"SIGINT"}, {"SIGTERM"}, Signals}
  BY DEF TypeOK, Signals
<1>2. Cardinality({}) = 0 /\ IsFiniteSet({})
  BY FS_EmptySet
<1>3. Cardinality({"SIGINT"}) = 1 /\ Cardinality({"SIGTERM"}) = 1 /\ IsFiniteSet({"SIGINT"})
  BY FS_Singleton
<1>4. Cardinality(Signals) = 2
  BY SignalsFinite
<1>5. failures \in Nat
  BY DEF TypeOK
<1>6. CASE arrived = {}
  BY <1>2, <1>5, <1>6 DEF Events, Twice, Signals
<1>7. CASE arrived \in {{"SIGINT"}, {"SIGTERM"}}
  <2>1. Cardinality(arrived) = 1
    BY <1>7, <1>3
  <2>2. arrived # {} /\ ~(Signals \subseteq arrived)
    BY <1>7 DEF Signals
  <2> QED
    BY <2>1, <2>2, <1>5 DEF Events, Twice
<1>8. CASE arrived = Signals
  BY <1>4, <1>5, <1>8 DEF Events, Twice
<1> QED
  BY <1>1, <1>6, <1>7, <1>8

(* No single signal and no single failing call leaves the helper process, a *)
(* descriptor or the command behind, whatever step of execute() it strikes. *)
THEOREM CleanupIsComplete == Spec => []NothingLeftBehind
<1>1. IInv => NothingLeftBehind
  BY TwoEvents DEF IInv, NothingLeftBehind, OnceInv, TypeOK, Twice
<1> QED
  BY Invariance, <1>1, PTL

(* The caller gets its signal mask back, unless two events strike, or one   *)
(* strikes before anything was made.                                        *)
THEOREM MaskIsRestored == Spec => []MaskRestored
<1>1. IInv => MaskRestored
  <2> SUFFICES ASSUME IInv PROVE MaskRestored
    OBVIOUS
  <2>1. Cardinality(arrived) \in Nat /\ failures \in Nat
    BY FS_Subset, FS_CardinalityType, SignalsFinite DEF IInv, TypeOK
  <2> QED
    BY <2>1, TwoEvents DEF IInv, MaskRestored, OnceInv, Events
<1> QED
  BY Invariance, <1>1, PTL

(* execute() returns normally only if no signal waits that was blocked.     *)
THEOREM SignalsAreKept == Spec => []NoSignalLost
<1>1. IInv => NoSignalLost
  BY DEF IInv, NoSignalLost, OutInv, SignalsInv
<1> QED
  BY Invariance, <1>1, PTL
=============================================================================
