------------------------ MODULE DeploymentLock_proofs -----------------------
(***************************************************************************)
(* For any number of invocations and any times: the locked blocks exclude  *)
(* each other, a held lock has a live reference, and no descriptor is      *)
(* left open by an invocation that has ended without the lock.             *)
(***************************************************************************)
EXTENDS DeploymentLock, TLAPS

(* The descriptor is open from Open to the close that ends the invocation.  *)
Referenced == \A p \in Procs : pc[p] \notin Outside => p \in open

LockInv == TypeOK /\ Exclusion /\ NoDescriptorLeft /\ Referenced

LEMMA InitLock == Init => LockInv
<1> SUFFICES ASSUME Init PROVE LockInv
  OBVIOUS
<1>1. TypeOK
  BY TimeAssumption DEF Init, TypeOK, Labels, Outside
<1>2. Exclusion /\ NoDescriptorLeft /\ Referenced
  BY DEF Init, Exclusion, NoDescriptorLeft, Referenced, At, Outside
<1> QED
  BY <1>1, <1>2 DEF LockInv

(* A tick cannot leave the range of the clocks, nor can a sleep outlast the *)
(* deadline it was cut to.                                                  *)
LEMMA ClocksInRange ==
  ASSUME NEW n \in 0..Timeout
  PROVE  Elapse(n) \in 0..Timeout /\ Least(Poll, n) \in 0..Timeout
  BY TimeAssumption DEF Elapse, Least

LEMMA StepTyped == TypeOK /\ [Next]_vars => TypeOK'
<1> SUFFICES ASSUME TypeOK, [Next]_vars PROVE TypeOK'
  OBVIOUS
<1> USE DEF TypeOK, Labels, Outside, Inside, At, Goto, GiveUp, Close
<1>1. ASSUME NEW p \in Procs, Open(p) \/ TryFlock(p) \/ Wake(p) PROVE TypeOK'
  BY <1>1 DEF Open, TryFlock, Wake
<1>2. ASSUME NEW p \in Procs, SetDeadline(p) \/ Interrupt(p) PROVE TypeOK'
  BY <1>2, TimeAssumption DEF SetDeadline, Interrupt
<1>3. ASSUME NEW p \in Procs, CheckDeadline(p) PROVE TypeOK'
  BY <1>3, ClocksInRange DEF CheckDeadline
<1>4. ASSUME NEW p \in Procs, ForkHelper(p) \/ HelperExits(p) PROVE TypeOK'
  BY <1>4 DEF ForkHelper, HelperExits
<1>5. ASSUME NEW p \in Procs, Leave(p) \/ Crash(p) PROVE TypeOK'
  BY <1>5 DEF Leave, Release, CloseFile, Crash
<1>6. CASE Tick
  BY <1>6, ClocksInRange DEF Tick
<1>7. CASE UNCHANGED vars
  BY <1>7 DEF vars
<1> QED
  BY <1>1, <1>2, <1>3, <1>4, <1>5, <1>6, <1>7 DEF Next, Enter

(* Whoever leaves closes its descriptor, and the lock goes with the last    *)
(* reference.                                                               *)
LEMMA LeavingKeeps ==
  ASSUME LockInv, NEW p \in Procs, NEW label \in Outside,
         Goto(p, label), Close(p), UNCHANGED heirs
  PROVE  (Exclusion /\ NoDescriptorLeft /\ Referenced)'
  BY NobodyAssumption
  DEF LockInv, TypeOK, Exclusion, NoDescriptorLeft, Referenced, At, Goto, Close,
      Outside, Labels

LEMMA StepLocked == LockInv /\ [Next]_vars => (Exclusion /\ NoDescriptorLeft /\ Referenced)'
<1> SUFFICES ASSUME LockInv, [Next]_vars
             PROVE  (Exclusion /\ NoDescriptorLeft /\ Referenced)'
  OBVIOUS
<1> DEFINE Safe == Exclusion /\ NoDescriptorLeft /\ Referenced
<1> USE NobodyAssumption
    DEF LockInv, TypeOK, Exclusion, NoDescriptorLeft, Referenced, At, Goto, Outside, Labels
<1>1. ASSUME NEW p \in Procs, Open(p) PROVE Safe'
  BY <1>1 DEF Open
<1>2. ASSUME NEW p \in Procs, NEW label \in Outside, GiveUp(p, label) PROVE Safe'
  BY <1>2, LeavingKeeps DEF GiveUp
<1>3. ASSUME NEW p \in Procs, SetDeadline(p) PROVE Safe'
  BY <1>2, <1>3 DEF SetDeadline
<1>4. ASSUME NEW p \in Procs, TryFlock(p) PROVE Safe'
  BY <1>2, <1>4 DEF TryFlock
<1>5. ASSUME NEW p \in Procs, CheckDeadline(p) PROVE Safe'
  BY <1>2, <1>5 DEF CheckDeadline
<1>6. ASSUME NEW p \in Procs, Wake(p) PROVE Safe'
  BY <1>6 DEF Wake
<1>7. ASSUME NEW p \in Procs, Interrupt(p) PROVE Safe'
  BY <1>2, <1>7 DEF Interrupt
<1>8. ASSUME NEW p \in Procs, ForkHelper(p) PROVE Safe'
  BY <1>8 DEF ForkHelper
<1>9. ASSUME NEW p \in Procs, HelperExits(p) PROVE Safe'
  BY <1>9 DEF HelperExits
<1>10. ASSUME NEW p \in Procs, Release(p) PROVE Safe'
  BY <1>10 DEF Release
<1>11. ASSUME NEW p \in Procs, CloseFile(p) \/ Crash(p) PROVE Safe'
  BY <1>11, LeavingKeeps DEF CloseFile, Crash
<1>12. CASE Tick
  BY <1>12 DEF Tick
<1>13. CASE UNCHANGED vars
  BY <1>13 DEF vars
<1> QED
  BY <1>1, <1>3, <1>4, <1>5, <1>6, <1>7, <1>8, <1>9, <1>10, <1>11, <1>12, <1>13
  DEF Next, Enter, Leave

LEMMA LockInvAlways == Spec => []LockInv
<1>1. LockInv /\ [Next]_vars => LockInv'
  BY StepTyped, StepLocked DEF LockInv
<1> QED
  BY InitLock, <1>1, PTL DEF Spec

(* Two invocations are never in their locked blocks together, and a lock    *)
(* that is held is held through a descriptor that is still open, however    *)
(* many invocations and helpers there are (state.py:442-527).               *)
THEOREM LockIsExclusive == Spec => []Exclusion
<1>1. LockInv => Exclusion
  BY DEF LockInv
<1> QED
  BY LockInvAlways, <1>1, PTL

(* An __enter__ that is refused, fails or is interrupted, and an __exit__,  *)
(* leave no descriptor open.                                                *)
THEOREM DescriptorsAreClosed == Spec => []NoDescriptorLeft
<1>1. LockInv => NoDescriptorLeft
  BY DEF LockInv
<1> QED
  BY LockInvAlways, <1>1, PTL

(* At most one invocation is in its locked block.                           *)
THEOREM OneInside ==
  Spec => [](\A p, q \in Procs : At(p, "inside") /\ At(q, "inside") => p = q)
<1>1. LockInv => \A p, q \in Procs : At(p, "inside") /\ At(q, "inside") => p = q
  BY DEF LockInv, Exclusion
<1> QED
  BY LockInvAlways, <1>1, PTL
=============================================================================
