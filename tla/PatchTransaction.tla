------------------------- MODULE PatchTransaction --------------------------
(***************************************************************************)
(* How the desktop's file tools change several files at once: apply_patch  *)
(* and edit (kind "patch") and file_ops read and check every file, check   *)
(* the versions again, write each new content to a temporary file beside   *)
(* its target and then replace or remove the targets one by one;           *)
(* format_files writes in place (apply_guarded).  Files may change under   *)
(* the tool: the workspace lock holds off the other file tools but not     *)
(* commands that exec_command started, nor the user's editor.              *)
(*                                                                         *)
(* A content is what was read ("old"), what the tool writes ("new"), what  *)
(* somebody else wrote ("ext"), a write that broke off ("torn") or "gone". *)
(* Every read, write, rename and removal is a step and may fail.  The maps *)
(* are walked in any order, as HashMap does; a path is one file, though    *)
(* two sections of a patch may name the same one.                          *)
(***************************************************************************)
EXTENDS FiniteSets, Integers

CONSTANTS
  PatchFiles,
  PatchMaxEdits,     \* how often somebody else changes a file
  PatchRemovesFirst  \* replace_file removes the target before it renames (Windows)

ASSUME PatchAssumption ==
  /\ IsFiniteSet(PatchFiles)
  /\ PatchMaxEdits \in Nat
  /\ PatchRemovesFirst \in BOOLEAN

PatchOps == {"edit", "add", "delete"}
PatchKinds == {"patch", "file_ops", "format"}
PatchContents == {"old", "new", "ext", "torn", "gone"}

VARIABLES
  patchKind,    \* the tool that runs
  patchOp,      \* what it does to each file
  patchDisk,    \* the content of each file
  patchPc,      \* the loop the tool is in
  patchTodo,    \* the files that loop has not reached
  patchBase,    \* what preflight read, "unread" before
  patchBackup,  \* backups: the content, "gone" for None, "none" without entry
  patchSwap,    \* the file between remove_file and rename, in a set
  patchOutcome, \* what the tool answered
  patchHurt,    \* files whose backup was unreadable, or whose write in place or restore failed
  patchLate,    \* files others changed after the tool verified them
  patchEdits    \* how many changes others made

patchEnv == <<patchLate, patchEdits>>
patchFixed == <<patchKind, patchOp>>
patchVars == <<patchFixed, patchDisk, patchPc, patchTodo, patchBase, patchBackup,
               patchSwap, patchOutcome, patchHurt, patchEnv>>

PatchTypeOK ==
  /\ patchKind \in PatchKinds /\ patchOp \in [PatchFiles -> PatchOps]
  /\ patchDisk \in [PatchFiles -> PatchContents]
  /\ patchPc \in {"read", "verify", "stage", "commit", "mkdir", "restore", "end"}
  /\ patchTodo \subseteq PatchFiles /\ patchSwap \subseteq PatchFiles
  /\ patchBase \in [PatchFiles -> PatchContents \cup {"unread"}]
  /\ patchBackup \in [PatchFiles -> PatchContents \cup {"none", "empty"}]
  /\ patchOutcome \in {"none", "applied", "refused", "failed", "crashed"}
  /\ patchHurt \subseteq PatchFiles
  /\ patchLate \subseteq PatchFiles /\ patchEdits \in 0 .. PatchMaxEdits

PatchInit ==
  /\ patchKind \in PatchKinds
  /\ patchOp \in [PatchFiles -> PatchOps]
  /\ patchKind = "format" => \A f \in PatchFiles : patchOp[f] = "edit"
  /\ patchDisk = [f \in PatchFiles |-> IF patchOp[f] = "add" THEN "gone" ELSE "old"]
  /\ patchPc = "read" /\ patchTodo = PatchFiles
  /\ patchBase = [f \in PatchFiles |-> "unread"]
  /\ patchBackup = [f \in PatchFiles |-> "none"]
  /\ patchSwap = {} /\ patchOutcome = "none" /\ patchHurt = {}
  /\ patchLate = {} /\ patchEdits = 0

PatchTarget(f) == IF patchOp[f] = "delete" THEN "gone" ELSE "new"

\* The next file of the loop `at`, and the loop that follows when it was the last.
PatchLoop(at, f, next) ==
  /\ patchPc = at /\ f \in patchTodo
  /\ patchTodo' = IF patchTodo = {f} THEN PatchFiles ELSE patchTodo \ {f}
  /\ patchPc' = IF patchTodo = {f} THEN next ELSE at

PatchAnswer(outcome) == patchPc' = "end" /\ patchOutcome' = outcome /\ UNCHANGED patchTodo

\* Every `?` on the way: the tool answers with an error and does nothing else.
PatchReturn(outcome) ==
  /\ PatchAnswer(outcome)
  /\ UNCHANGED <<patchFixed, patchDisk, patchBase, patchBackup, patchSwap, patchHurt, patchEnv>>

-----------------------------------------------------------------------------
(* Preflight                                                               *)

PatchRead(f) ==
  /\ (patchOp[f] = "add") <=> (patchDisk[f] = "gone")
  /\ PatchLoop("read", f, "verify")
  /\ patchBase' = [patchBase EXCEPT ![f] = patchDisk[f]]
  /\ UNCHANGED <<patchFixed, patchDisk, patchBackup, patchSwap, patchOutcome, patchHurt, patchEnv>>

\* The file is missing, exists already or is protected, or a hunk does not apply.
PatchRefuse == patchPc = "read" /\ PatchReturn("refused")

PatchAfterVerify == IF patchKind = "format" THEN "commit" ELSE "stage"

\* Mutated form of PatchVerify: only existence is compared.
PatchVerifyExistence(f) ==
  /\ (patchDisk[f] = "gone") <=> (patchBase[f] = "gone")
  /\ PatchLoop("verify", f, PatchAfterVerify)
  /\ UNCHANGED <<patchFixed, patchDisk, patchBase, patchBackup, patchSwap, patchOutcome, patchHurt, patchEnv>>

\* verify_file_version.
PatchVerify(f) ==
  /\ patchDisk[f] = patchBase[f]
  /\ PatchLoop("verify", f, PatchAfterVerify)
  /\ UNCHANGED <<patchFixed, patchDisk, patchBase, patchBackup, patchSwap, patchOutcome, patchHurt, patchEnv>>

PatchConflict(f) ==
  /\ patchPc = "verify" /\ f \in patchTodo
  /\ patchDisk[f] # patchBase[f]
  /\ PatchReturn("refused")

-----------------------------------------------------------------------------
(* commit_staged_bytes                                                     *)

\* Mutated form of PatchBackups: only a file that is removed is kept.
PatchBackupsOfRemoved(f) ==
  IF patchOp[f] = "delete" THEN {patchDisk[f], "empty"} ELSE {"gone"}

\* What may be kept of f: its content, None when there is none, nothing (but a
\* backup all the same) when it cannot be read.
PatchBackups(f) == IF patchDisk[f] = "gone" THEN {"gone"} ELSE {patchDisk[f], "empty"}

\* The backup and the temporary file; an error while writing the latter restores.
PatchStage(f) ==
  \E kept \in PatchBackups(f), ok \in BOOLEAN :
    /\ patchOp[f] = "delete" => patchDisk[f] # "gone" /\ ok
    /\ patchBackup' = [patchBackup EXCEPT ![f] = kept]
    /\ patchHurt' = IF kept = "empty" THEN patchHurt \cup {f} ELSE patchHurt
    /\ IF ok
         THEN PatchLoop("stage", f, "commit")
         ELSE /\ patchPc = "stage" /\ f \in patchTodo
              /\ patchPc' = "restore"
              /\ patchTodo' = {g \in PatchFiles : patchBackup'[g] # "none"}
    /\ UNCHANGED <<patchFixed, patchDisk, patchBase, patchSwap, patchOutcome, patchEnv>>

\* The path cannot be resolved any more (it is gone, a link was put in its way, the disk
\* does not answer), or a directory cannot be created.  Neither the temporary files nor,
\* in the second loop, the files replaced so far are cared for.
PatchUnresolved(f) ==
  /\ patchPc \in {"stage", "commit"} /\ f \in patchTodo /\ patchSwap = {}
  /\ PatchReturn("failed")

PatchDone == IF patchKind = "file_ops" THEN "mkdir" ELSE "end"

\* The step that completes f; after the last one the tool answers or makes directories.
PatchComplete(f) ==
  /\ PatchLoop("commit", f, PatchDone)
  /\ patchDisk' = [patchDisk EXCEPT ![f] = PatchTarget(f)]
  /\ patchSwap' = {}
  /\ patchOutcome' = IF patchPc' = "end" THEN "applied" ELSE "none"
  /\ UNCHANGED <<patchFixed, patchBase, patchBackup, patchHurt, patchEnv>>

\* A target that exists is removed first on Windows.
PatchMustRemove(f) ==
  PatchRemovesFirst /\ patchOp[f] # "delete" /\ patchDisk[f] # "gone" /\ patchSwap = {}

PatchReplace(f) ==
  /\ patchKind # "format"
  /\ patchSwap \subseteq {f}
  /\ ~ PatchMustRemove(f)
  /\ patchOp[f] = "delete" => patchDisk[f] # "gone"
  /\ PatchComplete(f)

PatchRemoveFirst(f) ==
  /\ patchKind # "format"
  /\ patchPc = "commit" /\ f \in patchTodo /\ PatchMustRemove(f)
  /\ patchDisk' = [patchDisk EXCEPT ![f] = "gone"]
  /\ patchSwap' = {f}
  /\ UNCHANGED <<patchFixed, patchPc, patchTodo, patchBase, patchBackup, patchOutcome, patchHurt, patchEnv>>

\* The rename or the removal fails: all backups are written back, those of files
\* not replaced yet too.
PatchReplaceFails(f) ==
  /\ patchKind # "format"
  /\ patchPc = "commit" /\ f \in patchTodo /\ patchSwap \subseteq {f}
  /\ patchPc' = "restore"
  /\ patchTodo' = {g \in PatchFiles : patchBackup[g] # "none"}
  /\ patchSwap' = {}
  /\ UNCHANGED <<patchFixed, patchDisk, patchBase, patchBackup, patchOutcome, patchHurt, patchEnv>>

\* file_ops creates its directories last; one that fails undoes the files.
PatchMkdir ==
  /\ patchPc = "mkdir"
  /\ \/ PatchAnswer("applied")
     \/ /\ patchPc' = "restore" /\ patchTodo' = PatchFiles /\ UNCHANGED patchOutcome
  /\ UNCHANGED <<patchFixed, patchDisk, patchBase, patchBackup, patchSwap, patchHurt, patchEnv>>

-----------------------------------------------------------------------------
(* apply_guarded: written in place, and the written ones written back      *)

PatchWriteInPlace(f) ==
  /\ patchKind = "format"
  /\ patchDisk[f] # "gone"
  /\ PatchComplete(f)

\* fs::write truncates before it writes: a file whose write breaks off is left so.
PatchWriteFails(f) ==
  /\ patchKind = "format"
  /\ patchPc = "commit" /\ f \in patchTodo /\ patchDisk[f] # "gone"
  /\ \E torn \in BOOLEAN :
       /\ patchDisk' = IF torn THEN [patchDisk EXCEPT ![f] = "torn"] ELSE patchDisk
       /\ patchHurt' = IF torn THEN patchHurt \cup {f} ELSE patchHurt
  /\ patchPc' = "restore"
  /\ patchTodo' = PatchFiles \ patchTodo
  /\ patchBackup' = patchBase
  /\ UNCHANGED <<patchFixed, patchBase, patchSwap, patchOutcome, patchEnv>>

-----------------------------------------------------------------------------
(* restore_backups                                                         *)

\* A restore that fails is not reported.
PatchRestore(f) ==
  \E ok \in BOOLEAN, left \in PatchContents :
    /\ patchPc = "restore" /\ f \in patchTodo
    /\ patchDisk' = [patchDisk EXCEPT ![f] =
                       IF ok THEN (IF patchBackup[f] = "empty" THEN "torn" ELSE patchBackup[f])
                       ELSE left]
    /\ left \in IF ok \/ patchBackup[f] = "gone" THEN {patchDisk[f]} ELSE {patchDisk[f], "torn"}
    /\ patchHurt' = IF ok THEN patchHurt ELSE patchHurt \cup {f}
    /\ patchTodo' = patchTodo \ {f}
    /\ UNCHANGED <<patchFixed, patchPc, patchBase, patchBackup, patchSwap, patchOutcome, patchEnv>>

PatchRestored ==
  /\ patchPc = "restore" /\ patchTodo = {}
  /\ PatchReturn("failed")

-----------------------------------------------------------------------------

PatchCrash == patchPc # "end" /\ PatchReturn("crashed")

\* The files the tool has verified.
PatchVerified ==
  IF patchPc = "read" THEN {} ELSE IF patchPc = "verify" THEN PatchFiles \ patchTodo ELSE PatchFiles

\* A command or an editor writes or removes a file.
PatchExternal(f) ==
  /\ patchPc # "end" /\ patchEdits < PatchMaxEdits
  /\ \E c \in {"ext", "gone"} \ {patchDisk[f]} : patchDisk' = [patchDisk EXCEPT ![f] = c]
  /\ patchEdits' = patchEdits + 1
  /\ patchLate' = IF f \in PatchVerified THEN patchLate \cup {f} ELSE patchLate
  /\ UNCHANGED <<patchFixed, patchPc, patchTodo, patchBase, patchBackup, patchSwap, patchOutcome, patchHurt>>

PatchNext ==
  \/ PatchRefuse \/ PatchMkdir \/ PatchRestored \/ PatchCrash
  \/ \E f \in PatchFiles :
       \/ PatchRead(f) \/ PatchVerify(f) \/ PatchConflict(f) \/ PatchStage(f)
       \/ PatchUnresolved(f) \/ PatchReplace(f) \/ PatchRemoveFirst(f) \/ PatchReplaceFails(f)
       \/ PatchWriteInPlace(f) \/ PatchWriteFails(f) \/ PatchRestore(f) \/ PatchExternal(f)

PatchSpec == PatchInit /\ [][PatchNext]_patchVars

-----------------------------------------------------------------------------
(* Properties                                                              *)

\* What somebody else wrote before the tool verified the file is never overwritten:
\* the tool changes only what it has read, or what it has put there itself.
PatchKeepsEarlierEdits ==
  [][\A f \in PatchFiles \ patchLate :
       patchEdits' = patchEdits /\ patchDisk'[f] # patchDisk[f]
         => \/ patchDisk[f] \in {patchBase[f], PatchTarget(f), "torn"}
            \/ patchDisk[f] = "gone" /\ (patchSwap = {f} \/ patchPc = "restore")]_patchVars

\* A tool that answers "applied" has written or removed every file.  One that answers with
\* an error has restored every file it has not hurt; but when a path could not be resolved
\* any more it returns at once, and each file is either as it was read or as the tool would
\* have it.  Excepted are what others changed meanwhile and the files of patchHurt: a file
\* that could not be read when it was backed up, one whose write in place broke off (never
\* among those that apply_guarded writes back) and one that could not be restored.
PatchWholeOrUndone ==
  \A f \in PatchFiles \ patchLate :
    /\ patchOutcome = "applied" => patchDisk[f] = PatchTarget(f)
    /\ patchOutcome = "failed" /\ f \notin patchHurt =>
         \/ patchDisk[f] = patchBase[f]
         \/ patchDisk[f] = PatchTarget(f) /\ patchTodo # {}
=============================================================================
