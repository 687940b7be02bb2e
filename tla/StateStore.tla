---------------------------- MODULE StateStore -----------------------------
(***************************************************************************)
(* state.StateStore at the level of its system calls: save() writes a      *)
(* temporary file, syncs it, renames it over NAME.json and syncs the       *)
(* directory; delete() unlinks and syncs the directory.  Every call may    *)
(* fail with an OSError, be cut by an interrupt (KeyboardInterrupt,        *)
(* OperationCancelled), or never return because the process is killed or   *)
(* the machine loses power.  load() of another invocation, which takes no  *)
(* lock, runs beside them.                                                 *)
(*                                                                         *)
(* One writer: deploy, destroy and redeploy hold the deployment lock.  The *)
(* temporary name is fresh for each save, so what a killed writer left     *)
(* behind is never looked at again.                                        *)
(***************************************************************************)
CONSTANTS Contents,      \* serialised snapshots
          NoSnapshot,    \* what load() returns when there is no file
          Torn,          \* what is read from a file whose data was not synced
          NoFile         \* no directory entry, no temporary file

(* A file is its content and whether fsync has put it on the disk.          *)
File(c, s) == [content |-> c, synced |-> s]
Files == [content : Contents \cup {Torn}, synced : BOOLEAN]

ASSUME ContentAssumption ==
  Torn \notin Contents /\ NoSnapshot \notin Contents \cup {Torn} /\ NoFile \notin Files

VARIABLES
  target,                \* what NAME.json names now
  entries,               \* what it may name after a power loss
  temporary,             \* the temporary file of the save in progress
  pc, op, new,           \* the writer: position, call, snapshot to save
  replaced,              \* replaced, unlinked: the commit returned
  outcome,               \* how the call ends
  seen, kept,            \* history: disk and durable as of the last return
  reader, read           \* an unlocked load(): the file it opened, its result

writerVars == <<pc, op, new, replaced, outcome>>
readerVars == <<reader, read>>
vars == <<target, entries, temporary, writerVars, seen, kept, readerVars>>

At(label) == pc = label
Content(f) == IF f = NoFile THEN NoSnapshot ELSE f.content
Now  == Content(target)
Kept == {Content(f) : f \in entries}

Goto(label) == pc' = label /\ UNCHANGED <<op, new, replaced, outcome>>

(* An error leaves the try blocks through _cleanup_temporary.               *)
Raise(code) ==
  /\ pc' = IF op = "save" THEN "cleanup" ELSE "return"
  /\ outcome' = code
  /\ UNCHANGED <<op, new, replaced>>

(* What the innermost try raises from the rename on: the commit may have    *)
(* happened.  RaiseUnclassified: STATE_WRITE_FAILED all the same.           *)
RaiseUnclassified == Raise("plain")
RaiseClassified == Raise("uncertain")

-----------------------------------------------------------------------------
(* save()                                                                   *)

CallSave ==
  /\ At("idle")
  /\ \E c \in Contents : new' = c
  /\ op' = "save" /\ pc' = "mkstemp" /\ replaced' = FALSE /\ outcome' = "ok"
  /\ UNCHANGED <<target, entries, temporary, seen, kept, readerVars>>

(* _ensure_directory and mkstemp, with fchmod.                              *)
MakeTemporary ==
  /\ At("mkstemp")
  /\ \/ temporary' = File(Torn, FALSE) /\ Goto("write")
     \/ temporary' \in {NoFile, File(Torn, FALSE)} /\ \E code \in {"plain", "interrupt"} : Raise(code)
  /\ UNCHANGED <<target, entries, seen, kept, readerVars>>

(* ShortWrite: os.write without the loop around it.                         *)
ShortWrite ==
  /\ At("write")
  /\ temporary' = File(Torn, FALSE) /\ Goto("fsync")
  /\ UNCHANGED <<target, entries, seen, kept, readerVars>>

WriteTemporary ==
  /\ At("write")
  /\ \/ temporary' = File(new, FALSE) /\ Goto("fsync")
     \/ UNCHANGED temporary /\ \E code \in {"plain", "interrupt"} : Raise(code)
  /\ UNCHANGED <<target, entries, seen, kept, readerVars>>

(* fsync of the temporary file, and its close.  SkipFsync: without it.      *)
SkipFsync ==
  /\ At("fsync") /\ Goto("replace")
  /\ UNCHANGED <<target, entries, temporary, seen, kept, readerVars>>

SyncTemporary ==
  /\ At("fsync")
  /\ \/ temporary' = [temporary EXCEPT !.synced = TRUE] /\ Goto("replace")
     \/ UNCHANGED temporary /\ \E code \in {"plain", "interrupt"} : Raise(code)
  /\ UNCHANGED <<target, entries, seen, kept, readerVars>>

(* An error of os.replace, or an interrupt before it is noted, does not     *)
(* tell whether the rename took place.  RenameIsDurable: the old entry is   *)
(* taken to be gone for good.                                               *)
RenameIsDurable ==
  /\ target' = temporary
  /\ temporary' = NoFile
  /\ UNCHANGED entries

Rename ==
  /\ target' = temporary
  /\ entries' = entries \cup {temporary}
  /\ temporary' = NoFile

Replace ==
  /\ At("replace")
  /\ \/ Rename /\ replaced' = TRUE /\ pc' = "fsync_directory" /\ UNCHANGED <<op, new, outcome>>
     \/ (Rename \/ UNCHANGED <<target, entries, temporary>>) /\ RaiseClassified
  /\ UNCHANGED <<seen, kept, readerVars>>

(* Both save() and delete() end with it.                                    *)
SyncDirectory ==
  /\ At("fsync_directory")
  /\ \/ entries' = {target} /\ pc' = (IF op = "save" THEN "cleanup" ELSE "return")
        /\ UNCHANGED <<op, new, replaced, outcome>>
     \/ entries' \in {entries, {target}} /\ RaiseClassified
  /\ UNCHANGED <<target, temporary, seen, kept, readerVars>>

(* The finally block: a second failure is dropped behind the first one, an  *)
(* interrupt takes its place.                                               *)
CleanUp ==
  /\ At("cleanup")
  /\ \/ temporary' = IF replaced THEN temporary ELSE NoFile
     \/ UNCHANGED temporary
  /\ pc' = "return" /\ outcome' \in {outcome, "interrupt"}
  /\ UNCHANGED <<op, new, replaced>>
  /\ UNCHANGED <<target, entries, seen, kept, readerVars>>

-----------------------------------------------------------------------------
(* delete()                                                                 *)

CallDelete ==
  /\ At("idle")
  /\ op' = "delete" /\ pc' = "unlink" /\ replaced' = FALSE /\ outcome' = "ok"
  /\ UNCHANGED <<target, entries, temporary, new, seen, kept, readerVars>>

RemoveEntry ==
  /\ target' = NoFile
  /\ entries' = entries \cup {NoFile}

Unlink ==
  /\ At("unlink")
  /\ \/ /\ target = NoFile
        /\ Goto("return") /\ UNCHANGED <<target, entries>>
     \/ /\ target # NoFile /\ RemoveEntry
        /\ replaced' = TRUE /\ pc' = "fsync_directory" /\ UNCHANGED <<op, new, outcome>>
     \/ (RemoveEntry \/ UNCHANGED <<target, entries>>) /\ RaiseClassified
     \/ UNCHANGED <<target, entries>> /\ Raise("interrupt")
  /\ UNCHANGED <<temporary, seen, kept, readerVars>>

-----------------------------------------------------------------------------
(* The end of a call, in one way or another.                                *)

Observe == seen' = Content(target') /\ kept' = {Content(f) : f \in entries'}

Return ==
  /\ At("return")
  /\ pc' = "idle" /\ temporary' = NoFile
  /\ UNCHANGED <<target, entries, op, new, replaced, outcome, readerVars>>
  /\ Observe

Crash ==
  /\ ~At("idle")
  /\ pc' = "idle" /\ temporary' = NoFile
  /\ UNCHANGED <<target, entries, op, new, replaced, outcome, readerVars>>
  /\ Observe

(* A file whose data never reached the disk comes back torn.                *)
PowerLoss ==
  /\ \E f \in entries :
       /\ target' = IF f = NoFile \/ f.synced THEN f ELSE File(Torn, TRUE)
       /\ entries' = {target'}
  /\ pc' = "idle" /\ temporary' = NoFile
  /\ Observe
  /\ reader' = NoFile /\ read' = NoSnapshot
  /\ UNCHANGED <<op, new, replaced, outcome>>

(* load(): the file is opened by name once and then read to its end.        *)
Open ==
  /\ reader = NoFile /\ target # NoFile
  /\ reader' = target
  /\ UNCHANGED <<target, entries, temporary, writerVars, seen, kept, read>>

ReadAll ==
  /\ reader # NoFile
  /\ read' = reader.content /\ reader' = NoFile
  /\ UNCHANGED <<target, entries, temporary, writerVars, seen, kept>>

Init ==
  /\ target = NoFile /\ entries = {NoFile} /\ temporary = NoFile
  /\ pc = "idle" /\ op = "save" /\ new \in Contents /\ replaced = FALSE /\ outcome = "ok"
  /\ seen = NoSnapshot /\ kept = {NoSnapshot}
  /\ reader = NoFile /\ read = NoSnapshot

WriterStep ==
  \/ MakeTemporary \/ WriteTemporary \/ SyncTemporary \/ Replace \/ SyncDirectory
  \/ CleanUp \/ Unlink \/ Return

Next == CallSave \/ CallDelete \/ WriterStep \/ Crash \/ PowerLoss \/ Open \/ ReadAll

Spec == Init /\ [][Next]_vars

-----------------------------------------------------------------------------
(* Properties.                                                              *)

Outcomes == {"ok", "plain", "uncertain", "interrupt"}

(* Every variable has its type; NAME.json names one of the files that a     *)
(* power loss may leave there.                                              *)
TypeOK ==
  /\ entries \subseteq Files \cup {NoFile} /\ target \in entries
  /\ temporary \in Files \cup {NoFile}
  /\ pc \in {"idle", "mkstemp", "write", "fsync", "replace", "fsync_directory",
             "cleanup", "unlink", "return"}
  /\ op \in {"save", "delete"} /\ new \in Contents
  /\ replaced \in BOOLEAN /\ outcome \in Outcomes
  /\ seen \in Contents \cup {NoSnapshot} /\ kept \subseteq Contents \cup {NoSnapshot}
  /\ reader \in Files \cup {NoFile} /\ read \in Contents \cup {NoSnapshot}

(* However save() and delete() are cut short, by an error, a kill or a      *)
(* power loss, NAME.json names a whole snapshot or nothing, now and after   *)
(* the next boot: the data is on the disk before the name is.               *)
NeverTorn == \A f \in entries : f # NoFile => f.synced /\ f.content # Torn

(* A load() that runs beside a save() returns a snapshot some save() was    *)
(* given, whole, or finds no file (inspect and --name take no lock).        *)
ReadersSeeWhole == read # Torn /\ (reader # NoFile => reader.content # Torn)

(* The error codes do not lie.  A call that returns has left the file as    *)
(* its outcome says (success is durable, STATE_WRITE_FAILED means nothing   *)
(* was touched), a killed call as one of the outcomes would, and a power    *)
(* loss between calls brings back only what an outcome announced.           *)
Abstract == INSTANCE SnapshotStore WITH disk <- seen, durable <- kept

Promise(code) == IF op = "save" THEN Abstract!Save(new, code) ELSE Abstract!Delete(code)
OutcomeStep ==
  /\ Return => Promise(outcome)
  /\ Crash  => \E code \in Outcomes : Promise(code)
  /\ (At("idle") /\ PowerLoss) => Abstract!LosePower
OutcomesAreTruthful == [][OutcomeStep]_vars
=============================================================================
