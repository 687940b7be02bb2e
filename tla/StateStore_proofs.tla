-------------------------- MODULE StateStore_proofs -------------------------
(***************************************************************************)
(* For any contents: the file is never torn, unlocked readers see it       *)
(* whole, and each call of save() and delete(), seen from outside, is a    *)
(* step of SnapshotStore with the outcome it reports.                      *)
(***************************************************************************)
EXTENDS StateStore, TLAPS

(* What is promised of the temporary file at each step of a save.           *)
Prepared ==
  /\ pc \in {"mkstemp", "write", "fsync", "replace", "cleanup"} => op = "save"
  /\ pc = "unlink" => op = "delete"
  /\ pc \in {"write", "fsync", "replace"} => temporary # NoFile
  /\ pc \in {"fsync", "replace"} => temporary.content = new
  /\ pc = "replace" => temporary.synced

SafeInv == TypeOK /\ NeverTorn /\ ReadersSeeWhole /\ Prepared

LEMMA InitSafe == Init => SafeInv
  BY ContentAssumption
  DEF Init, SafeInv, TypeOK, NeverTorn, ReadersSeeWhole, Prepared, Outcomes, Files

(* What is whole has one of the contents.                                   *)
LEMMA WholeContent ==
  ASSUME NEW f \in Files \cup {NoFile}, f # NoFile => f.content # Torn
  PROVE  Content(f) \in Contents \cup {NoSnapshot}
  BY DEF Content, Files

LEMMA FileParts ==
  ASSUME NEW c \in Contents \cup {Torn}, NEW s \in BOOLEAN
  PROVE  /\ File(c, s) \in Files /\ File(c, s) # NoFile
         /\ File(c, s).content = c /\ File(c, s).synced = s
  BY ContentAssumption DEF File, Files

LEMMA SyncedFile ==
  ASSUME NEW f \in Files
  PROVE  LET g == [f EXCEPT !.synced = TRUE] IN
         g \in Files /\ g # NoFile /\ g.content = f.content /\ g.synced
  BY ContentAssumption DEF Files

LEMMA NextSafe == SafeInv /\ [Next]_vars => SafeInv'
<1> SUFFICES ASSUME SafeInv, [Next]_vars PROVE SafeInv'
  OBVIOUS
<1> USE ContentAssumption
    DEF SafeInv, TypeOK, NeverTorn, ReadersSeeWhole, Prepared, At, Goto, Raise, RaiseClassified,
        writerVars, readerVars, Outcomes
<1>1. CASE CallSave
  BY <1>1 DEF CallSave
<1>2. CASE MakeTemporary
  BY <1>2, FileParts DEF MakeTemporary
<1>3. CASE WriteTemporary
  BY <1>3, FileParts, ZenonT(40) DEF WriteTemporary
<1>4. CASE SyncTemporary
  BY <1>4, SyncedFile DEF SyncTemporary
<1>5. CASE Replace
  BY <1>5 DEF Replace, Rename
<1>6. CASE SyncDirectory
  BY <1>6 DEF SyncDirectory
<1>7. CASE CleanUp
  BY <1>7 DEF CleanUp
<1>8. CASE CallDelete
  BY <1>8 DEF CallDelete
<1>9. CASE Unlink
  BY <1>9 DEF Unlink, RemoveEntry
<1>10. CASE Return \/ Crash
  <2>1. UNCHANGED <<target, entries, readerVars, op, new, replaced, outcome>>
        /\ pc' = "idle" /\ temporary' = NoFile /\ Observe
    BY <1>10 DEF Return, Crash
  <2>2. \A f \in entries : Content(f) \in Contents \cup {NoSnapshot}
    BY WholeContent
  <2>3. seen' \in Contents \cup {NoSnapshot} /\ kept' \subseteq Contents \cup {NoSnapshot}
    BY <2>1, <2>2 DEF Observe
  <2> QED
    BY <2>1, <2>3
<1>11. CASE PowerLoss
  <2>1. PICK f \in entries : target' = (IF f = NoFile \/ f.synced THEN f ELSE File(Torn, TRUE))
                             /\ entries' = {target'}
    BY <1>11 DEF PowerLoss
  <2>2. target' = f
    BY <2>1
  <2>3. seen' = Content(f) /\ kept' = {Content(f)}
    BY <1>11, <2>1, <2>2 DEF PowerLoss, Observe
  <2>4. Content(f) \in Contents \cup {NoSnapshot}
    BY WholeContent
  <2> QED
    BY <1>11, <2>1, <2>2, <2>3, <2>4 DEF PowerLoss
<1>12. CASE Open
  BY <1>12 DEF Open
<1>13. CASE ReadAll
  BY <1>13 DEF ReadAll, Files
<1>14. CASE UNCHANGED vars
  BY <1>14 DEF vars
<1> QED
  BY <1>1, <1>2, <1>3, <1>4, <1>5, <1>6, <1>7, <1>8, <1>9, <1>10, <1>11, <1>12, <1>13, <1>14
  DEF Next, WriterStep

THEOREM SafeAlways == Spec => []SafeInv
  BY InitSafe, NextSafe, PTL DEF Spec

(* Every variable keeps its type.                                           *)
THEOREM TypeCorrect == Spec => []TypeOK
  BY SafeAlways, PTL DEF SafeInv

(* However save() and delete() are cut short, the file is whole or absent.  *)
THEOREM FileIsWhole == Spec => []NeverTorn
  BY SafeAlways, PTL DEF SafeInv

(* load() without the lock returns whole snapshots.                         *)
THEOREM ReadersAlwaysSeeWhole == Spec => []ReadersSeeWhole
  BY SafeAlways, PTL DEF SafeInv

-----------------------------------------------------------------------------
(* The implementation of SnapshotStore.                                     *)

(* The state of the file compared with the one at the last return.          *)
Same         == Now = seen /\ Kept = kept
Committed(c) == Now = c /\ Kept = {c}
Lingers(c)   == Now = c /\ Kept = kept \cup {c}
Doubtful(c)  == Same \/ Lingers(c) \/ Committed(c)

Saved(c, code) ==
  \/ code = "ok" /\ Committed(c)
  \/ code = "plain" /\ Same
  \/ code \in {"uncertain", "interrupt"} /\ Doubtful(c)
Deleted(code) ==
  \/ code = "ok" /\ seen = NoSnapshot /\ Same
  \/ code = "ok" /\ seen # NoSnapshot /\ Committed(NoSnapshot)
  \/ code \in {"uncertain", "interrupt"} /\ Doubtful(NoSnapshot)
Done(code) == IF op = "save" THEN Saved(new, code) ELSE Deleted(code)

(* How far the commit has come at each step of a call.                      *)
Progress ==
  /\ pc \in {"idle", "mkstemp", "write", "fsync", "replace", "unlink"} => Same
  /\ pc \in {"mkstemp", "write", "fsync", "replace", "unlink", "fsync_directory"} => outcome = "ok"
  /\ pc = "fsync_directory" /\ op = "save"   => Lingers(new)
  /\ pc = "fsync_directory" /\ op = "delete" => Lingers(NoSnapshot) /\ seen # NoSnapshot
  /\ pc \in {"cleanup", "return"} => Done(outcome)

LEMMA InitProgress == Init => Progress
  BY DEF Init, Progress, Same, Now, Kept, Content

LEMMA KeptGrows ==
  ASSUME NEW A, NEW x
  PROVE  {Content(f) : f \in A \cup {x}} = {Content(f) : f \in A} \cup {Content(x)}
  OBVIOUS

(* A step that leaves the file, its history and the call alone.             *)
LEMMA FileStays ==
  ASSUME UNCHANGED <<target, entries, seen, kept>>
  PROVE  /\ Now' = Now /\ Kept' = Kept
         /\ Same' = Same
         /\ \A c : /\ Committed(c)' = Committed(c) /\ Lingers(c)' = Lingers(c)
                   /\ Doubtful(c)' = Doubtful(c)
                   /\ \A code : Saved(c, code)' = Saved(c, code)
         /\ \A code : Deleted(code)' = Deleted(code)
<1>1. Now' = Now /\ Kept' = Kept
  BY DEF Now, Kept, Content
<1> QED
  BY <1>1 DEF Same, Committed, Lingers, Doubtful, Saved, Deleted

(* The call goes on, and nothing has happened to the file.                  *)
LEMMA CallStays ==
  ASSUME UNCHANGED <<target, entries, seen, kept, op, new>>
  PROVE  \A code : Done(code)' = Done(code)
  BY FileStays DEF Done

LEMMA NextProgress == SafeInv /\ Progress /\ [Next]_vars => Progress'
<1> SUFFICES ASSUME SafeInv, Progress, [Next]_vars PROVE Progress'
  OBVIOUS
<1>0. /\ op \in {"save", "delete"} /\ new \in Contents /\ target \in Files \cup {NoFile}
      /\ target # NoFile => target.content # Torn
      /\ pc \in {"mkstemp", "write", "fsync", "replace", "cleanup"} => op = "save"
      /\ pc = "unlink" => op = "delete"
      /\ pc = "replace" => temporary # NoFile /\ temporary.content = new
  BY DEF SafeInv, TypeOK, NeverTorn, Prepared
<1> USE DEF At, Goto, Raise, RaiseClassified, writerVars, readerVars
<1>1. CASE CallSave \/ CallDelete
  <2>1. Same' = Same
    BY <1>1, FileStays DEF CallSave, CallDelete
  <2> QED
    BY <1>1, <2>1 DEF CallSave, CallDelete, Progress
<1>2. CASE MakeTemporary \/ WriteTemporary \/ SyncTemporary
  <2>1. UNCHANGED <<target, entries, seen, kept, op, new>>
    BY <1>2 DEF MakeTemporary, WriteTemporary, SyncTemporary
  <2>2. Same' = Same /\ Done("plain")' = Done("plain") /\ Done("interrupt")' = Done("interrupt")
    BY <2>1, FileStays, CallStays
  <2>3. Same /\ outcome = "ok" /\ op = "save"
    BY <1>2, <1>0 DEF MakeTemporary, WriteTemporary, SyncTemporary, Progress
  <2>4. Done("plain") /\ Done("interrupt")
    BY <2>3 DEF Done, Saved, Doubtful
  <2>5. \/ pc' \in {"write", "fsync", "replace"} /\ outcome' = outcome
        \/ pc' = "cleanup" /\ outcome' \in {"plain", "interrupt"}
    BY <1>2, <2>3 DEF MakeTemporary, WriteTemporary, SyncTemporary
  <2> QED
    BY <2>2, <2>3, <2>4, <2>5 DEF Progress
<1>3. CASE Replace
  <2>1. Same /\ op = "save" /\ outcome = "ok" /\ Content(temporary) = new
    BY <1>3, <1>0 DEF Replace, Progress, Content
  <2>2. UNCHANGED <<seen, kept, op, new>>
    BY <1>3 DEF Replace
  <2>3. CASE Rename
    <3>1. Now' = new /\ Kept' = Kept \cup {new}
      BY <2>1, <2>3, KeptGrows DEF Rename, Now, Kept, Content
    <3>2. Lingers(new)'
      BY <3>1, <2>1, <2>2 DEF Lingers, Same
    <3>3. \/ pc' = "fsync_directory" /\ outcome' = outcome
          \/ pc' = "cleanup" /\ outcome' = "uncertain"
      BY <1>3, <2>1 DEF Replace
    <3> QED
      BY <2>1, <2>2, <3>2, <3>3 DEF Progress, Done, Saved, Doubtful
  <2>4. CASE UNCHANGED <<target, entries>> /\ RaiseClassified
    <3>1. Same'
      BY <2>1, <2>2, <2>4, FileStays
    <3>2. pc' = "cleanup" /\ outcome' = "uncertain"
      BY <2>1, <2>4
    <3> QED
      BY <2>1, <2>2, <3>1, <3>2 DEF Progress, Done, Saved, Doubtful
  <2> QED
    BY <1>3, <2>3, <2>4 DEF Replace
<1>4. CASE SyncDirectory
  <2> DEFINE c == IF op = "save" THEN new ELSE NoSnapshot
  <2>1. Lingers(c) /\ outcome = "ok" /\ (op = "delete" => seen # NoSnapshot)
    BY <1>4, <1>0 DEF SyncDirectory, Progress
  <2>2. UNCHANGED <<target, seen, kept, op, new>>
    BY <1>4 DEF SyncDirectory
  <2>3. Now' = Now
    BY <2>2 DEF Now, Content
  <2>4. entries' = {target} => Committed(c)'
    BY <2>1, <2>2, <2>3 DEF Committed, Lingers, Kept, Now, Content
  <2>5. entries' = entries => Lingers(c)'
    BY <2>1, <2>2, FileStays
  <2>6. \/ entries' = {target} /\ outcome' = outcome
        \/ entries' \in {entries, {target}} /\ outcome' = "uncertain"
    BY <1>4 DEF SyncDirectory
  <2>7. Done(outcome)'
    BY <1>0, <2>1, <2>2, <2>4, <2>5, <2>6 DEF Done, Saved, Deleted, Doubtful
  <2>8. pc' \in {"cleanup", "return"}
    BY <1>4 DEF SyncDirectory
  <2> QED
    BY <2>7, <2>8 DEF Progress
<1>5. CASE CleanUp
  <2>1. UNCHANGED <<target, entries, seen, kept, op, new>> /\ pc' = "return" /\ op = "save"
    BY <1>5, <1>0 DEF CleanUp
  <2>2. Done(outcome)
    BY <1>5 DEF CleanUp, Progress
  <2>3. Done("interrupt")
    BY <2>1, <2>2 DEF Done, Saved, Doubtful
  <2>4. outcome' \in {outcome, "interrupt"}
    BY <1>5 DEF CleanUp
  <2>5. Done(outcome)'
    BY <2>1, <2>2, <2>3, <2>4, FileStays DEF Done
  <2> QED
    BY <2>1, <2>5 DEF Progress
<1>6. CASE Unlink
  <2>1. Same /\ op = "delete" /\ outcome = "ok"
    BY <1>6, <1>0 DEF Unlink, Progress
  <2>2. UNCHANGED <<seen, kept, op, new>>
    BY <1>6 DEF Unlink
  <2>3. target = NoFile => seen = NoSnapshot
    BY <2>1 DEF Same, Now, Content
  <2>4. target # NoFile => seen # NoSnapshot
    BY <2>1, <1>0, ContentAssumption DEF Same, Now, Content, Files
  <2>5. RemoveEntry => Lingers(NoSnapshot)'
    <3>1. ASSUME RemoveEntry PROVE Now' = NoSnapshot /\ Kept' = Kept \cup {NoSnapshot}
      BY <3>1, KeptGrows DEF RemoveEntry, Now, Kept, Content
    <3> QED
      BY <3>1, <2>1, <2>2 DEF Lingers, Same
  <2>6. UNCHANGED <<target, entries>> => Same'
    BY <2>1, <2>2, FileStays
  <2>7. \/ pc' = "return" /\ outcome' = "ok" /\ target = NoFile /\ UNCHANGED <<target, entries>>
        \/ pc' = "fsync_directory" /\ outcome' = "ok" /\ target # NoFile /\ RemoveEntry
        \/ /\ pc' = "return" /\ outcome' \in {"uncertain", "interrupt"}
           /\ RemoveEntry \/ UNCHANGED <<target, entries>>
    BY <1>6, <2>1 DEF Unlink
  <2> QED
    BY <2>1, <2>2, <2>3, <2>4, <2>5, <2>6, <2>7 DEF Progress, Done, Deleted, Doubtful
<1>7. CASE Return \/ Crash \/ PowerLoss
  BY <1>7 DEF Return, Crash, PowerLoss, Observe, Progress, Same, Now, Kept, Content
<1>8. CASE Open \/ ReadAll \/ UNCHANGED vars
  <2>1. UNCHANGED <<target, entries, seen, kept, op, new, pc, outcome>>
    BY <1>8 DEF Open, ReadAll, vars
  <2>2. Same' = Same /\ Lingers(new)' = Lingers(new) /\ Lingers(NoSnapshot)' = Lingers(NoSnapshot)
        /\ Done(outcome)' = Done(outcome)
    BY <2>1, FileStays DEF Done
  <2> QED
    BY <2>1, <2>2 DEF Progress
<1> QED
  BY <1>1, <1>2, <1>3, <1>4, <1>5, <1>6, <1>7, <1>8 DEF Next, WriterStep

LEMMA ProgressAlways == Spec => []Progress
  BY InitProgress, NextProgress, SafeAlways, PTL DEF Spec

(* What is done when a call ends is what the outcome promises.              *)
LEMMA DoneIsPromised ==
  ASSUME NEW code, seen' = Now, kept' = Kept, Done(code)
  PROVE  Promise(code)
  BY DEF Promise, Done, Saved, Deleted, Doubtful, Same, Committed, Lingers,
         Abstract!Save, Abstract!Delete, Abstract!InDoubt, Abstract!Untouched,
         Abstract!Commit, Abstract!Linger, Abstract!storeVars

LEMMA StepIsTruthful == SafeInv /\ Progress /\ [Next]_vars => [OutcomeStep]_vars
<1> SUFFICES ASSUME SafeInv, Progress PROVE OutcomeStep
  OBVIOUS
<1>0. op \in {"save", "delete"}
      /\ (pc \in {"mkstemp", "write", "fsync", "replace", "cleanup"} => op = "save")
      /\ (pc = "unlink" => op = "delete")
      /\ pc \in {"idle", "mkstemp", "write", "fsync", "replace", "fsync_directory",
                 "cleanup", "unlink", "return"}
      /\ outcome \in Outcomes
  BY DEF SafeInv, TypeOK, Prepared
<1>1. ASSUME Return \/ Crash PROVE seen' = Now /\ kept' = Kept
  BY <1>1 DEF Return, Crash, Observe, Now, Kept, Content
<1>2. ASSUME Return PROVE Promise(outcome)
  BY <1>2, <1>1, DoneIsPromised DEF Return, At, Progress
<1>3. ASSUME Crash PROVE \E code \in Outcomes : Promise(code)
  <2>1. CASE pc \in {"mkstemp", "write", "fsync", "replace"}
    BY <1>0, <1>1, <1>3, <2>1, DoneIsPromised DEF Progress, Done, Saved, Outcomes
  <2>2. CASE pc \in {"fsync_directory", "unlink"}
    <3>1. Done("uncertain")
      BY <1>0, <2>2 DEF Progress, Done, Saved, Deleted, Doubtful
    <3> QED
      BY <3>1, <1>1, <1>3, DoneIsPromised DEF Outcomes
  <2>3. CASE pc \in {"cleanup", "return"}
    BY <1>0, <1>1, <1>3, <2>3, DoneIsPromised DEF Progress
  <2> QED
    BY <1>0, <1>3, <2>1, <2>2, <2>3 DEF Crash, At
<1>4. ASSUME At("idle"), PowerLoss PROVE Abstract!LosePower
  <2>1. PICK f \in entries : target' = (IF f = NoFile \/ f.synced THEN f ELSE File(Torn, TRUE))
                             /\ entries' = {target'}
    BY <1>4 DEF PowerLoss
  <2>2. target' = f
    BY <2>1 DEF SafeInv, NeverTorn
  <2>3. seen' = Content(f) /\ kept' = {Content(f)}
    BY <1>4, <2>1, <2>2 DEF PowerLoss, Observe
  <2>4. Content(f) \in kept
    BY <1>4 DEF At, Progress, Same, Kept
  <2> QED
    BY <2>3, <2>4 DEF Abstract!LosePower, Abstract!Commit
<1> QED
  BY <1>2, <1>3, <1>4 DEF OutcomeStep

(* The system calls of save() and delete() implement SnapshotStore.         *)
THEOREM OutcomesAlwaysTruthful == Spec => OutcomesAreTruthful
  BY StepIsTruthful, SafeAlways, ProgressAlways, PTL DEF OutcomesAreTruthful, Spec
=============================================================================
