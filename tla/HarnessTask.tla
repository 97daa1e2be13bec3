---------------------------- MODULE HarnessTask ----------------------------
(***************************************************************************)
(* The desktop's task sessions (the harness): one file per task, and the   *)
(* workspace index state.json, which names the current task of each scope  *)
(* so that lookups need not read every task; here of one scope.  Files are *)
(* replaced whole, one after the other, so an error or a crash leaves the  *)
(* index behind the tasks: lookups trust an index without an entry only    *)
(* when it is newer than the directory of the tasks, and rebuild it else.  *)
(*                                                                         *)
(* Calls of the task tools run one at a time (the Task lock); the other    *)
(* tools look the task up and refresh its fingerprint without that lock.   *)
(* Each read or write of a file is a step.  A missing state.json is as one *)
(* without entries that is not newer.                                      *)
(***************************************************************************)
EXTENDS FiniteSets, Integers

CONSTANTS HtTasks, HtCalls, HtNobody

ASSUME HtAssumption == HtNobody \notin HtTasks \cup HtCalls

VARIABLES
  htStatus,  \* the status in each task's file, "none" without a file
  htIndex,   \* active_task_ids[scope]
  htCovers,  \* state.json is newer than the directory of the tasks
  htOp,      \* what each call does: "start", "move" (finish, pause, ...),
             \* "update" (update_task) or "tracked" (another tool)
  htPc, htTask, htCopy, \* where it is, its task and the status it will write
  htFound,   \* the entry it read, or that the index it writes will have
  htUnread,  \* the tasks its listing has not read yet
  htLock,    \* the call that holds the Task lock
  htOverlap  \* between what one call read and what it did on its account, another one
             \* changed a status or put an entry into the index

htFiles == <<htStatus, htIndex, htCovers>>
htVars == <<htFiles, htOp, htPc, htTask, htCopy, htFound, htUnread, htLock, htOverlap>>

HtStatuses == {"active", "paused", "verifying", "failed", "failed_final", "completed",
               "completed_unverified", "rolled_back"}

\* occupies_current_task_slot and can_transition_to.
HtOccupies(status) == status \in {"active", "verifying", "failed"}
HtMoves ==
  ({"active"} \X {"paused", "verifying", "failed", "completed_unverified"})
    \cup ({"paused"} \X {"active"})
    \cup ({"verifying"} \X {"completed", "completed_unverified", "failed"})
    \cup ({"failed"} \X {"active", "failed_final", "rolled_back"})

HtPlaces == {"new", "look", "load", "covers", "list", "read", "reload", "run",
             "write", "index", "save", "end"}

HtTypeOK ==
  /\ htStatus \in [HtTasks -> HtStatuses \cup {"none"}]
  /\ htIndex \in HtTasks \cup {HtNobody} /\ htCovers \in BOOLEAN
  /\ htOp \in [HtCalls -> {"start", "move", "update", "tracked"}]
  /\ htPc \in [HtCalls -> HtPlaces]
  /\ htTask \in [HtCalls -> HtTasks \cup {HtNobody}]
  /\ htCopy \in [HtCalls -> HtStatuses \cup {"none"}]
  /\ htFound \in [HtCalls -> HtTasks \cup {HtNobody}]
  /\ htUnread \in [HtCalls -> SUBSET HtTasks]
  /\ htLock \in HtCalls \cup {HtNobody} /\ htOverlap \in BOOLEAN

HtInit ==
  /\ htStatus = [t \in HtTasks |-> "none"]
  /\ htIndex = HtNobody /\ htCovers = FALSE
  /\ htOp \in [HtCalls -> {"start", "move", "update", "tracked"}]
  /\ htPc = [c \in HtCalls |-> "new"]
  /\ htTask = [c \in HtCalls |-> HtNobody]
  /\ htCopy = [c \in HtCalls |-> "none"]
  /\ htFound = [c \in HtCalls |-> HtNobody]
  /\ htUnread = [c \in HtCalls |-> {}]
  /\ htLock = HtNobody /\ htOverlap = FALSE

HtCurrent == {t \in HtTasks : HtOccupies(htStatus[t])}

HtGo(c, pc) == htPc' = [htPc EXCEPT ![c] = pc] /\ UNCHANGED htLock
HtEnd(c) ==
  /\ htPc' = [htPc EXCEPT ![c] = "end"]
  /\ htLock' = IF htLock = c THEN HtNobody ELSE htLock

-----------------------------------------------------------------------------
(* Calls                                                                   *)

\* transition asks for the current task when the task becomes one.
HtMustLook(t, next) == HtOccupies(next) /\ ~ HtOccupies(htStatus[t])

\* The call takes its lock; a move or an update has read its task and checked it.
HtBegin(c) ==
  /\ htPc[c] = "new"
  /\ htOp[c] # "tracked" => htLock = HtNobody
  /\ htLock' = IF htOp[c] = "tracked" THEN htLock ELSE c
  /\ \/ /\ htOp[c] \in {"start", "tracked"}
        /\ htPc' = [htPc EXCEPT ![c] = "look"]
        /\ UNCHANGED <<htTask, htCopy>>
     \/ \E t \in HtTasks, next \in HtStatuses :
          /\ \/ htOp[c] = "move" /\ <<htStatus[t], next>> \in HtMoves
             \/ htOp[c] = "update" /\ htStatus[t] = next
          /\ htTask' = [htTask EXCEPT ![c] = t]
          /\ htCopy' = [htCopy EXCEPT ![c] = next]
          /\ htPc' = [htPc EXCEPT ![c] = IF HtMustLook(t, next) THEN "look" ELSE "write"]
  /\ UNCHANGED <<htFiles, htOp, htFound, htUnread, htOverlap>>

\* What the call does with the current task, or with none.
HtFind(c, found) ==
  \/ /\ htOp[c] = "start" /\ found = HtNobody
     /\ \E t \in HtTasks : htStatus[t] = "none" /\ htTask' = [htTask EXCEPT ![c] = t]
     /\ htCopy' = [htCopy EXCEPT ![c] = "active"]
     /\ HtGo(c, "write")
  \/ /\ htOp[c] = "move" /\ found \in {HtNobody, htTask[c]}
     /\ HtGo(c, "write") /\ UNCHANGED <<htTask, htCopy>>
  \/ /\ htOp[c] = "tracked" /\ found # HtNobody
     /\ htTask' = [htTask EXCEPT ![c] = found]
     /\ HtGo(c, "run") /\ UNCHANGED htCopy
  \/ /\ htOp[c] = "start" => found # HtNobody
     /\ htOp[c] = "move" => found \notin {HtNobody, htTask[c]}
     /\ htOp[c] = "tracked" => found = HtNobody
     /\ HtEnd(c) /\ UNCHANGED <<htTask, htCopy>>

\* current_task_for_scope reads the index.
HtLook(c) ==
  /\ htPc[c] = "look"
  /\ htFound' = [htFound EXCEPT ![c] = htIndex]
  /\ HtGo(c, IF htIndex # HtNobody THEN "load" ELSE "covers")
  /\ UNCHANGED <<htFiles, htOp, htTask, htCopy, htUnread, htOverlap>>

\* The task it names.
HtLoad(c) ==
  /\ htPc[c] = "load"
  /\ IF HtOccupies(htStatus[htFound[c]])
       THEN HtFind(c, htFound[c])
       ELSE HtGo(c, "list") /\ UNCHANGED <<htTask, htCopy>>
  /\ UNCHANGED <<htFiles, htOp, htFound, htUnread, htOverlap>>

\* It named none: workspace_state_covers_task_entries compares the times of the file that is
\* there by now.
HtCovers(c) ==
  /\ htPc[c] = "covers"
  /\ IF htCovers THEN HtFind(c, HtNobody)
                 ELSE HtGo(c, "list") /\ UNCHANGED <<htTask, htCopy>>
  /\ UNCHANGED <<htFiles, htOp, htFound, htUnread, htOverlap>>

\* build_workspace_state lists the directory of the tasks ...
HtList(c) ==
  /\ htPc[c] = "list"
  /\ htUnread' = [htUnread EXCEPT ![c] = {t \in HtTasks : htStatus[t] # "none"}]
  /\ htFound' = [htFound EXCEPT ![c] = HtNobody]
  /\ HtGo(c, "read")
  /\ UNCHANGED <<htFiles, htOp, htTask, htCopy, htOverlap>>

\* ... and reads each task it saw there; the latest of several current ones wins.
HtRead(c) ==
  /\ htPc[c] = "read"
  /\ \E t \in htUnread[c] :
       /\ htUnread' = [htUnread EXCEPT ![c] = @ \ {t}]
       /\ \/ HtOccupies(htStatus[t]) /\ htFound' = [htFound EXCEPT ![c] = t]
          \/ (HtOccupies(htStatus[t]) => htFound[c] # HtNobody) /\ UNCHANGED htFound
  /\ UNCHANGED <<htFiles, htOp, htPc, htTask, htCopy, htLock, htOverlap>>

\* The index is replaced; its time may equal that of the directory.
HtSaveIndex(t) == htIndex' = t /\ htCovers' \in BOOLEAN

\* repair_workspace_state saves the index that was built.
HtRepair(c) ==
  /\ htPc[c] = "read" /\ htUnread[c] = {}
  /\ HtSaveIndex(htFound[c])
  /\ htOverlap' = (htOverlap \/ /\ htFound[c] # HtNobody
                                /\ \E d \in HtCalls \ {c} : htPc[d] = "covers" /\ htLock = d)
  /\ IF htFound[c] = HtNobody THEN HtFind(c, HtNobody)
                              ELSE HtGo(c, "reload") /\ UNCHANGED <<htTask, htCopy>>
  /\ UNCHANGED <<htStatus, htOp, htFound, htUnread>>

\* The task it names is read again.
HtReload(c) ==
  /\ htPc[c] = "reload"
  /\ HtFind(c, IF HtOccupies(htStatus[htFound[c]]) THEN htFound[c] ELSE HtNobody)
  /\ UNCHANGED <<htFiles, htOp, htFound, htUnread, htOverlap>>

\* refresh_expected_state, once the tool has run, reads the task again.
HtRefresh(c) ==
  /\ htPc[c] = "run"
  /\ htCopy' = [htCopy EXCEPT ![c] = htStatus[htTask[c]]]
  /\ HtGo(c, "write")
  /\ UNCHANGED <<htFiles, htOp, htTask, htFound, htUnread, htOverlap>>

\* Mutated form of HtTaskSaved: the file is replaced without touching its directory.
HtTaskSavedInPlace(t, status) ==
  htStatus' = [htStatus EXCEPT ![t] = status] /\ UNCHANGED htCovers

\* save_task: a file is created and renamed, which the directory's time shows.
HtTaskSaved(t, status) ==
  htStatus' = [htStatus EXCEPT ![t] = status] /\ htCovers' = FALSE

HtWrite(c) ==
  /\ htPc[c] = "write"
  /\ HtTaskSaved(htTask[c], htCopy[c])
  /\ htOverlap' = (htOverlap \/ /\ htCopy[c] # htStatus[htTask[c]]
                                /\ \E d \in HtCalls \ {c} :
                                     \/ htPc[d] = "read"
                                     \/ htPc[d] = "write" /\ htTask[d] = htTask[c])
  /\ IF htOp[c] \in {"start", "move"} THEN HtGo(c, "index") ELSE HtEnd(c)
  /\ UNCHANGED <<htIndex, htOp, htTask, htCopy, htFound, htUnread>>

\* save_workspace_state reads the index ...
HtIndexTask(c) ==
  /\ htPc[c] = "index"
  /\ htFound' = [htFound EXCEPT ![c] = IF HtOccupies(htCopy[c]) THEN htTask[c]
                                       ELSE IF htIndex = htTask[c] THEN HtNobody ELSE htIndex]
  /\ HtGo(c, "save")
  /\ UNCHANGED <<htFiles, htOp, htTask, htCopy, htUnread, htOverlap>>

\* ... and writes it.
HtSave(c) ==
  /\ htPc[c] = "save"
  /\ HtSaveIndex(htFound[c])
  /\ HtEnd(c)
  /\ UNCHANGED <<htStatus, htOp, htTask, htCopy, htFound, htUnread, htOverlap>>

\* An error or a crash ends the call; a crash ends all of them.
HtStops(c) ==
  /\ htPc[c] \notin {"new", "end"}
  /\ HtEnd(c)
  /\ UNCHANGED <<htFiles, htOp, htTask, htCopy, htFound, htUnread, htOverlap>>

HtNext ==
  \E c \in HtCalls :
    \/ HtBegin(c) \/ HtLook(c) \/ HtLoad(c) \/ HtCovers(c) \/ HtList(c) \/ HtRead(c) \/ HtRepair(c)
    \/ HtReload(c) \/ HtRefresh(c) \/ HtWrite(c) \/ HtIndexTask(c) \/ HtSave(c) \/ HtStops(c)

HtSpec == HtInit /\ [][HtNext]_htVars

-----------------------------------------------------------------------------
(* Properties                                                              *)

HtCurrentIsFound == HtCurrent # {} => htIndex # HtNobody \/ ~ htCovers

\* A scope has one current task: while it has one, start_task refuses to create a second
\* (requirements.md, FR-3: TASK_ALREADY_ACTIVE), whatever lookups of other tools run beside
\* it and wherever a call was broken off.
HtOneCurrent == Cardinality(HtCurrent) <= 1

\* The current task is one, and a lookup finds it or rebuilds the index: an index without
\* an entry is not trusted while there is a current task (current_task_for_scope), and no
\* second task becomes current beside it (TASK_ALREADY_ACTIVE), whichever of the files
\* half-finished starts, finishes and resumptions left behind.  What the Task lock does not
\* keep apart may break either (htOverlap): a status that changes while a lookup reads the
\* tasks or before a refreshed task is saved, and an entry that a lookup without the lock
\* repairs between the two looks a call with the lock takes at the index.
HtCurrentTask == ~ htOverlap => HtCurrentIsFound /\ HtOneCurrent
=============================================================================
