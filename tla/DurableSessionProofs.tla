------------------------ MODULE DurableSessionProofs ------------------------
(***************************************************************************)
(* Proofs about the managed jobs of the node agent: for every set of jobs  *)
(* and however often the agent ends, two commands of one operation or one  *)
(* lock group never run at once, but for a launch that was given up and a  *)
(* command whose worker died.                                              *)
(***************************************************************************)
EXTENDS DurableSession, TLAPS

\* A job whose command runs, or whose worker may still start it.
Active(j) == (dsWorker[j] = "started" \/ j \in dsRunning) /\ j \notin dsGivenUp

\* The call has come as far as the spawn.
Begun(j) == dsCall[j] \notin {"none", "locking", "files"}

\* Before the spawn there is nothing of a job but its session.
FreshOK(j) ==
  ~ Begun(j) =>
    /\ dsWorker[j] = "none" /\ dsSnapshot[j] = DsNobody
    /\ j \notin dsRunning \cup dsDir \cup dsRuntime \cup dsResult \cup dsRemoving
    /\ Present(j) => dsCall[j] = "files" /\ ~ dsSession[j].dir
    /\ \A w \in dsWrites : w.job # j

\* What the worker has left tells how far it came.
WorkerOK(j) ==
  /\ dsWorker[j] \in {"none", "started", "closing"} => j \notin dsRunning
  /\ j \in dsRuntime \/ dsCall[j] \in {"saving", "told"} =>
       /\ dsWorker[j] \in {"watching", "gone"}
       /\ j \notin dsResult \cap dsRunning
  /\ j \in dsResult => dsWorker[j] \in {"lost", "gone"}

\* A launch is its session's, and ends with the agent.
LaunchOK(j) ==
  /\ Launching(j) => Alive
  /\ dsCall[j] \in {"files", "spawned", "saving"} => Stage(j, {"launching"})

\* A session that is not final holds the lock of its group.
LockOK(j) == dsGrouped /\ Present(j) /\ dsSession[j].stage # "final" => dsHolder = j

\* Two launches of one operation never overlap, nor does a launch a session.
OperationOK(j) ==
  Launching(j) => \A k \in SameOperation(j) : ~ Launching(k) /\ ~ Present(k)

\* An agent that is up has a session of an active job, and once the caller was told a file
\* of it, which says that it is unfinished and from which it is restored.
ActiveOK(j) ==
  Active(j) =>
    /\ dsCall[j] \in {"spawned", "saving", "told"} /\ j \notin dsRemoving
    /\ \A w \in dsWrites : w.job = j => w.snapshot = "open"
    /\ dsCall[j] = "told" =>
         /\ dsSnapshot[j] = "open"
         /\ Alive => Stage(j, {"watched", "exited"})
         /\ dsAgent = "restoring" => j \in dsTodo \/ Stage(j, {"unwatched"})

WriteOK(w) == Alive /\ (w.by = "launch" => dsCall[w.job] = "saving" /\ w.snapshot = "open")

\* Nothing of an agent is at work when it is not up, and it restores what is on the disk.
AgentOK ==
  /\ dsTodo # {} => dsAgent = "restoring"
  /\ \A j \in dsTodo : dsSnapshot[j] # DsNobody
  /\ ~ Alive => dsWrites = {} /\ dsRemoving = {}
  /\ dsAgent = "down" => \A j \in DsJobs : ~ Present(j)

OneActive == \A j, k \in DsJobs : Active(j) /\ Active(k) => ~ Excludes(j, k)

Inv ==
  /\ DsTypeOK /\ AgentOK /\ OneActive
  /\ \A w \in dsWrites : WriteOK(w)
  /\ \A j \in DsJobs : /\ FreshOK(j) /\ WorkerOK(j) /\ LaunchOK(j) /\ LockOK(j)
                       /\ OperationOK(j) /\ ActiveOK(j)

\* What DsLock, DsSpawn and To write is a session.
LEMMA SessionFacts ==
  /\ \A s \in DsSessions : s # DsNobody /\ s = [stage |-> s.stage, dir |-> s.dir]
  /\ \A e \in {"launching", "watched", "exited", "unwatched", "found", "ending", "final"} :
       \A b \in BOOLEAN : [stage |-> e, dir |-> b] \in DsSessions
  BY DsAssumption DEF DsSessions





-----------------------------------------------------------------------------
(* One lemma per action                                                    *)

LEMMA AdmitInv == ASSUME Inv, NEW j \in DsJobs, DsAdmit(j) PROVE Inv'
<1>1. DsTypeOK'
  BY SessionFacts DEF Inv, DsTypeOK, Stage, dsDisk, dsProcesses, dsAgentState, DsAdmit, DsGoTo
<1>2. AgentOK'
  BY SessionFacts DEF Inv, Stage, Alive, dsDisk, dsProcesses, dsAgentState, DsAdmit, AgentOK
<1>3. OneActive'
  BY SessionFacts
  DEF Inv, Stage, Active, dsDisk, dsProcesses, dsAgentState, DsAdmit, OneActive, Excludes,
      SameOperation
<1>4. \A v \in dsWrites' : WriteOK(v)'
  BY SessionFacts
  DEF Inv, Stage, Alive, dsDisk, dsProcesses, dsAgentState, DsAdmit, DsGoTo, WriteOK
<1>5. \A x \in DsJobs : FreshOK(x)'
  BY SessionFacts
  DEF Inv, Stage, Begun, dsDisk, dsProcesses, dsAgentState, DsAdmit, DsGoTo, FreshOK, WriteOK,
      Present
<1>6. \A x \in DsJobs : WorkerOK(x)'
  BY SessionFacts
  DEF Inv, Stage, dsDisk, dsProcesses, dsAgentState, DsAdmit, DsGoTo, WorkerOK, WriteOK
<1>7. \A x \in DsJobs : LaunchOK(x)'
  BY SessionFacts
  DEF Inv, Stage, Alive, dsDisk, dsProcesses, dsAgentState, DsAdmit, DsGoTo, LaunchOK,
      WriteOK, Present
<1>8. \A x \in DsJobs : LockOK(x)'
  BY SessionFacts
  DEF Inv, Stage, dsDisk, dsProcesses, dsAgentState, DsAdmit, LockOK, Present
<1>9. \A x \in DsJobs : OperationOK(x)'
  BY SessionFacts
  DEF Inv, Stage, Launching, dsDisk, dsProcesses, dsAgentState, DsAdmit, DsGoTo, OperationOK,
      SameOperation, WriteOK, Present
<1>10. \A x \in DsJobs : ActiveOK(x)'
  BY SessionFacts
  DEF Inv, Stage, Active, dsDisk, dsProcesses, dsAgentState, DsAdmit, DsGoTo, ActiveOK,
      WorkerOK, WriteOK, Present
<1> QED  BY <1>1, <1>2, <1>3, <1>4, <1>5, <1>6, <1>7, <1>8, <1>9, <1>10 DEF Inv

LEMMA LockInv == ASSUME Inv, NEW j \in DsJobs, DsLock(j) PROVE Inv'
<1>0. /\ dsSession'[j] = [stage |-> "launching", dir |-> FALSE] /\ dsSession'[j] # DsNobody
      /\ \A x \in DsJobs \ {j} : dsSession'[x] = dsSession[x]
  BY SessionFacts DEF DsLock, Inv, DsTypeOK
<1>1. DsTypeOK'
  BY <1>0, SessionFacts
  DEF Inv, DsTypeOK, Stage, dsDisk, dsProcesses, dsAgentState, DsLock, DsGoTo
<1>2. AgentOK'
  BY <1>0, SessionFacts
  DEF Inv, Stage, Alive, dsDisk, dsProcesses, dsAgentState, DsLock, AgentOK
<1>3. OneActive'
  BY <1>0, SessionFacts
  DEF Inv, Stage, Active, dsDisk, dsProcesses, dsAgentState, DsLock, OneActive, Excludes,
      SameOperation
<1>4. \A v \in dsWrites' : WriteOK(v)'
  BY <1>0, SessionFacts
  DEF Inv, Stage, Alive, dsDisk, dsProcesses, dsAgentState, DsLock, DsGoTo, WriteOK
<1>5. \A x \in DsJobs : FreshOK(x)'
  BY <1>0, SessionFacts
  DEF Inv, DsTypeOK, Stage, Begun, dsDisk, dsProcesses, dsAgentState, DsLock, DsGoTo, FreshOK,
      WriteOK, Present
<1>6. \A x \in DsJobs : WorkerOK(x)'
  BY <1>0, SessionFacts
  DEF Inv, Stage, dsDisk, dsProcesses, dsAgentState, DsLock, DsGoTo, WorkerOK, WriteOK
<1>7. \A x \in DsJobs : LaunchOK(x)'
  BY <1>0, SessionFacts
  DEF Inv, Stage, Alive, dsDisk, dsProcesses, dsAgentState, DsLock, DsGoTo, LaunchOK, WriteOK,
      Present
<1>8. \A x \in DsJobs : LockOK(x)'
  BY <1>0, DsAssumption, SessionFacts
  DEF Inv, Stage, dsDisk, dsProcesses, dsAgentState, DsLock, LockOK, Present
<1>9. \A x \in DsJobs : OperationOK(x)'
  BY <1>0, SessionFacts
  DEF Inv, Stage, Launching, dsDisk, dsProcesses, dsAgentState, DsLock, DsGoTo, OperationOK,
      SameOperation, WriteOK, Present
<1>10. \A x \in DsJobs : ActiveOK(x)'
  BY <1>0, SessionFacts
  DEF Inv, Stage, Active, dsDisk, dsProcesses, dsAgentState, DsLock, DsGoTo, ActiveOK,
      WorkerOK, WriteOK, Present
<1> QED  BY <1>1, <1>2, <1>3, <1>4, <1>5, <1>6, <1>7, <1>8, <1>9, <1>10 DEF Inv

LEMMA SpawnInv == ASSUME Inv, NEW j \in DsJobs, DsSpawn(j) PROVE Inv'
<1>0. /\ dsSession'[j].stage = "launching" /\ dsSession'[j] \in DsSessions
      /\ dsSession'[j] # DsNobody
      /\ \A x \in DsJobs \ {j} : dsSession'[x] = dsSession[x]
  <2>1. dsSession[j].stage = "launching" /\ dsSession[j] \in DsSessions
    BY DEF Inv, DsTypeOK, DsSpawn, LaunchOK, Stage, Present
  <2>2. dsSession'[j] = [dsSession[j] EXCEPT !.dir = TRUE]
    BY DEF DsSpawn, Inv, DsTypeOK
  <2>3. dsSession'[j] \in DsSessions /\ dsSession'[j].stage = "launching"
    BY <2>1, <2>2 DEF DsSessions
  <2> QED  BY <2>3, SessionFacts DEF DsSpawn, Inv, DsTypeOK
<1>1. DsTypeOK'
  BY <1>0, SessionFacts
  DEF Inv, DsTypeOK, Stage, dsDisk, dsProcesses, dsAgentState, DsSpawn, DsGoTo
<1>2. AgentOK'
  BY <1>0, SessionFacts
  DEF Inv, Stage, Alive, dsDisk, dsProcesses, dsAgentState, DsSpawn, AgentOK
<1>3. OneActive'
  BY <1>0, SessionFacts
  DEF Inv, Stage, Launching, Active, dsDisk, dsProcesses, dsAgentState, DsSpawn, OneActive,
      OperationOK, LockOK, ActiveOK, LaunchOK, Excludes, SameOperation
<1>4. \A v \in dsWrites' : WriteOK(v)'
  BY <1>0, SessionFacts
  DEF Inv, Stage, Alive, dsDisk, dsProcesses, dsAgentState, DsSpawn, DsGoTo, WriteOK
<1>5. \A x \in DsJobs : FreshOK(x)'
  BY <1>0, SessionFacts
  DEF Inv, DsTypeOK, Stage, Begun, dsDisk, dsProcesses, dsAgentState, DsSpawn, DsGoTo,
      FreshOK, WriteOK, Present
<1>6. \A x \in DsJobs : WorkerOK(x)'
  BY <1>0, SessionFacts
  DEF Inv, Stage, Begun, dsDisk, dsProcesses, dsAgentState, DsSpawn, DsGoTo, WorkerOK,
      FreshOK, WriteOK
<1>7. \A x \in DsJobs : LaunchOK(x)'
  BY <1>0, SessionFacts
  DEF Inv, Stage, Alive, dsDisk, dsProcesses, dsAgentState, DsSpawn, DsGoTo, LaunchOK,
      WriteOK, Present
<1>8. \A x \in DsJobs : LockOK(x)'
  BY <1>0, SessionFacts
  DEF Inv, Stage, dsDisk, dsProcesses, dsAgentState, DsSpawn, LockOK, LaunchOK, Present
<1>9. \A x \in DsJobs : OperationOK(x)'
  BY <1>0, SessionFacts
  DEF Inv, Stage, Launching, dsDisk, dsProcesses, dsAgentState, DsSpawn, DsGoTo, OperationOK,
      SameOperation, WriteOK, Present
<1>10. \A x \in DsJobs : ActiveOK(x)'
  BY <1>0, SessionFacts
  DEF Inv, DsTypeOK, Stage, Begun, Active, dsDisk, dsProcesses, dsAgentState, DsSpawn, DsGoTo,
      ActiveOK, FreshOK, WorkerOK, WriteOK, Present
<1> QED  BY <1>1, <1>2, <1>3, <1>4, <1>5, <1>6, <1>7, <1>8, <1>9, <1>10 DEF Inv

LEMMA FilesFailInv == ASSUME Inv, NEW j \in DsJobs, DsFilesFail(j) PROVE Inv'
<1>1. DsTypeOK'
  BY SessionFacts
  DEF Inv, DsTypeOK, Stage, dsDisk, dsProcesses, dsAgentState, DsFilesFail, Remove, Unlock,
      DsGoTo
<1>2. AgentOK'
  BY SessionFacts
  DEF Inv, Stage, Alive, dsDisk, dsProcesses, dsAgentState, DsFilesFail, Remove, Unlock,
      AgentOK
<1>3. OneActive'
  BY SessionFacts
  DEF Inv, Stage, Active, dsDisk, dsProcesses, dsAgentState, DsFilesFail, Remove, Unlock,
      OneActive, Excludes, SameOperation
<1>4. \A v \in dsWrites' : WriteOK(v)'
  BY SessionFacts
  DEF Inv, Stage, Alive, dsDisk, dsProcesses, dsAgentState, DsFilesFail, Remove, Unlock,
      DsGoTo, WriteOK
<1>5. \A x \in DsJobs : FreshOK(x)'
  BY SessionFacts
  DEF Inv, Stage, Begun, dsDisk, dsProcesses, dsAgentState, DsFilesFail, Remove, Unlock,
      DsGoTo, FreshOK, LaunchOK, WriteOK, Present
<1>6. \A x \in DsJobs : WorkerOK(x)'
  BY SessionFacts
  DEF Inv, Stage, dsDisk, dsProcesses, dsAgentState, DsFilesFail, Remove, Unlock, DsGoTo,
      WorkerOK, WriteOK
<1>7. \A x \in DsJobs : LaunchOK(x)'
  BY SessionFacts
  DEF Inv, DsTypeOK, Stage, Alive, dsDisk, dsProcesses, dsAgentState, DsFilesFail, Remove,
      Unlock, DsGoTo, LaunchOK, WriteOK, Present
<1>8. \A x \in DsJobs : LockOK(x)'
  BY SessionFacts
  DEF Inv, DsTypeOK, Stage, dsDisk, dsProcesses, dsAgentState, DsFilesFail, Remove, Unlock,
      LockOK, Present
<1>9. \A x \in DsJobs : OperationOK(x)'
  BY SessionFacts
  DEF Inv, Stage, Launching, dsDisk, dsProcesses, dsAgentState, DsFilesFail, Remove, Unlock,
      DsGoTo, OperationOK, SameOperation, WriteOK, Present
<1>10. \A x \in DsJobs : ActiveOK(x)'
  BY SessionFacts
  DEF Inv, Stage, Active, dsDisk, dsProcesses, dsAgentState, DsFilesFail, Remove, Unlock,
      DsGoTo, ActiveOK, WorkerOK, WriteOK, Present
<1> QED  BY <1>1, <1>2, <1>3, <1>4, <1>5, <1>6, <1>7, <1>8, <1>9, <1>10 DEF Inv

LEMMA RegisteredInv == ASSUME Inv, NEW j \in DsJobs, DsRegistered(j) PROVE Inv'
<1>1. DsTypeOK'
  BY SessionFacts
  DEF Inv, DsTypeOK, Stage, dsDisk, dsProcesses, dsAgentState, DsRegistered, Persist,
      SnapshotOf, DsGoTo
<1>2. AgentOK'
  BY SessionFacts
  DEF Inv, Stage, Alive, dsDisk, dsProcesses, dsAgentState, DsRegistered, SnapshotOf,
      AgentOK
<1>3. OneActive'
  BY SessionFacts
  DEF Inv, Stage, Active, dsDisk, dsProcesses, dsAgentState, DsRegistered, SnapshotOf,
      OneActive, Excludes, SameOperation
<1>4. \A v \in dsWrites' : WriteOK(v)'
  BY SessionFacts
  DEF Inv, DsTypeOK, Stage, Finalized, Alive, dsDisk, dsProcesses, dsAgentState,
      DsRegistered, Persist, SnapshotOf, DsGoTo, WriteOK, LaunchOK
<1>5. \A x \in DsJobs : FreshOK(x)'
  BY SessionFacts
  DEF Inv, Stage, Begun, dsDisk, dsProcesses, dsAgentState, DsRegistered, Persist,
      SnapshotOf, DsGoTo, FreshOK, WriteOK, Present
<1>6. \A x \in DsJobs : WorkerOK(x)'
  BY SessionFacts
  DEF Inv, Stage, dsDisk, dsProcesses, dsAgentState, DsRegistered, SnapshotOf, DsGoTo,
      WorkerOK, WriteOK
<1>7. \A x \in DsJobs : LaunchOK(x)'
  BY SessionFacts
  DEF Inv, Stage, Alive, dsDisk, dsProcesses, dsAgentState, DsRegistered, SnapshotOf, DsGoTo,
      LaunchOK, WriteOK, Present
<1>8. \A x \in DsJobs : LockOK(x)'
  BY SessionFacts
  DEF Inv, Stage, dsDisk, dsProcesses, dsAgentState, DsRegistered, SnapshotOf, LockOK,
      Present
<1>9. \A x \in DsJobs : OperationOK(x)'
  BY SessionFacts
  DEF Inv, Stage, Launching, dsDisk, dsProcesses, dsAgentState, DsRegistered, SnapshotOf,
      DsGoTo, OperationOK, SameOperation, WriteOK, Present
<1>10. \A x \in DsJobs : ActiveOK(x)'
  BY SessionFacts
  DEF Inv, Stage, Finalized, Active, dsDisk, dsProcesses, dsAgentState, DsRegistered,
      Persist, SnapshotOf, DsGoTo, ActiveOK, WorkerOK, LaunchOK, WriteOK, Present
<1> QED  BY <1>1, <1>2, <1>3, <1>4, <1>5, <1>6, <1>7, <1>8, <1>9, <1>10 DEF Inv

LEMMA LaunchFailsInv == ASSUME Inv, NEW j \in DsJobs, DsLaunchFails(j) PROVE Inv'
<1>1. DsTypeOK'
  BY SessionFacts
  DEF Inv, DsTypeOK, Stage, dsDisk, dsProcesses, dsAgentState, DsLaunchFails, Remove,
      Unlock, DsGoTo
<1>2. AgentOK'
  BY SessionFacts
  DEF Inv, Stage, Alive, dsDisk, dsProcesses, dsAgentState, DsLaunchFails, Remove, Unlock,
      AgentOK
<1>3. OneActive'
  BY SessionFacts
  DEF Inv, Stage, Active, dsDisk, dsProcesses, dsAgentState, DsLaunchFails, Remove, Unlock,
      OneActive, Excludes, SameOperation
<1>4. \A v \in dsWrites' : WriteOK(v)'
  BY SessionFacts
  DEF Inv, Stage, Alive, dsDisk, dsProcesses, dsAgentState, DsLaunchFails, Remove, Unlock,
      DsGoTo, WriteOK
<1>5. \A x \in DsJobs : FreshOK(x)'
  BY SessionFacts
  DEF Inv, Stage, Begun, dsDisk, dsProcesses, dsAgentState, DsLaunchFails, Remove, Unlock,
      DsGoTo, FreshOK, WriteOK, Present
<1>6. \A x \in DsJobs : WorkerOK(x)'
  BY SessionFacts
  DEF Inv, Stage, dsDisk, dsProcesses, dsAgentState, DsLaunchFails, Remove, Unlock, DsGoTo,
      WorkerOK, WriteOK
<1>7. \A x \in DsJobs : LaunchOK(x)'
  BY SessionFacts
  DEF Inv, DsTypeOK, Stage, Alive, dsDisk, dsProcesses, dsAgentState, DsLaunchFails, Remove,
      Unlock, DsGoTo, LaunchOK, WriteOK, Present
<1>8. \A x \in DsJobs : LockOK(x)'
  BY SessionFacts
  DEF Inv, DsTypeOK, Stage, dsDisk, dsProcesses, dsAgentState, DsLaunchFails, Remove,
      Unlock, LockOK, Present
<1>9. \A x \in DsJobs : OperationOK(x)'
  BY SessionFacts
  DEF Inv, Stage, Launching, dsDisk, dsProcesses, dsAgentState, DsLaunchFails, Remove,
      Unlock, DsGoTo, OperationOK, SameOperation, WriteOK, Present
<1>10. \A x \in DsJobs : ActiveOK(x)'
  BY SessionFacts
  DEF Inv, Stage, Active, dsDisk, dsProcesses, dsAgentState, DsLaunchFails, Remove, Unlock,
      DsGoTo, ActiveOK, WorkerOK, WriteOK, Present
<1> QED  BY <1>1, <1>2, <1>3, <1>4, <1>5, <1>6, <1>7, <1>8, <1>9, <1>10 DEF Inv

LEMMA LaunchUnsavedInv == ASSUME Inv, NEW j \in DsJobs, DsLaunchUnsaved(j) PROVE Inv'
<1>1. DsTypeOK'
  BY SessionFacts
  DEF Inv, DsTypeOK, Stage, dsDisk, dsProcesses, dsAgentState, DsLaunchUnsaved, Remove,
      Unlock, DsGoTo
<1>2. AgentOK'
  BY SessionFacts
  DEF Inv, Stage, Alive, dsDisk, dsProcesses, dsAgentState, DsLaunchUnsaved, Remove, Unlock,
      AgentOK
<1>3. OneActive'
  BY SessionFacts
  DEF Inv, Stage, Active, dsDisk, dsProcesses, dsAgentState, DsLaunchUnsaved, Remove,
      Unlock, OneActive, Excludes, SameOperation
<1>4. \A v \in dsWrites' : WriteOK(v)'
  BY SessionFacts
  DEF Inv, DsTypeOK, Stage, Alive, dsDisk, dsProcesses, dsAgentState, DsLaunchUnsaved,
      Remove, Unlock, DsGoTo, WriteOK
<1>5. \A x \in DsJobs : FreshOK(x)'
  BY SessionFacts
  DEF Inv, Stage, Begun, dsDisk, dsProcesses, dsAgentState, DsLaunchUnsaved, Remove, Unlock,
      DsGoTo, FreshOK, WriteOK, Present
<1>6. \A x \in DsJobs : WorkerOK(x)'
  BY SessionFacts
  DEF Inv, Stage, dsDisk, dsProcesses, dsAgentState, DsLaunchUnsaved, Remove, Unlock, DsGoTo,
      WorkerOK, WriteOK
<1>7. \A x \in DsJobs : LaunchOK(x)'
  BY SessionFacts
  DEF Inv, DsTypeOK, Stage, Alive, dsDisk, dsProcesses, dsAgentState, DsLaunchUnsaved,
      Remove, Unlock, DsGoTo, LaunchOK, WriteOK, Present
<1>8. \A x \in DsJobs : LockOK(x)'
  BY SessionFacts
  DEF Inv, DsTypeOK, Stage, dsDisk, dsProcesses, dsAgentState, DsLaunchUnsaved, Remove,
      Unlock, LockOK, Present
<1>9. \A x \in DsJobs : OperationOK(x)'
  BY SessionFacts
  DEF Inv, Stage, Launching, dsDisk, dsProcesses, dsAgentState, DsLaunchUnsaved, Remove,
      Unlock, DsGoTo, OperationOK, SameOperation, WriteOK, Present
<1>10. \A x \in DsJobs : ActiveOK(x)'
  BY SessionFacts
  DEF Inv, Stage, Active, dsDisk, dsProcesses, dsAgentState, DsLaunchUnsaved, Remove,
      Unlock, DsGoTo, ActiveOK, WorkerOK, WriteOK, Present
<1> QED  BY <1>1, <1>2, <1>3, <1>4, <1>5, <1>6, <1>7, <1>8, <1>9, <1>10 DEF Inv

LEMMA RemovedInv == ASSUME Inv, NEW j \in DsJobs, DsRemoved(j) PROVE Inv'
<1>1. DsTypeOK'
  BY SessionFacts DEF Inv, DsTypeOK, Stage, dsDisk, dsProcesses, dsAgentState, DsRemoved
<1>2. AgentOK'
  BY SessionFacts
  DEF Inv, Stage, Alive, dsDisk, dsProcesses, dsAgentState, DsRemoved, AgentOK
<1>3. OneActive'
  BY SessionFacts
  DEF Inv, Stage, Active, dsDisk, dsProcesses, dsAgentState, DsRemoved, OneActive, Excludes,
      SameOperation
<1>4. \A v \in dsWrites' : WriteOK(v)'
  BY SessionFacts
  DEF Inv, Stage, Alive, dsDisk, dsProcesses, dsAgentState, DsRemoved, WriteOK
<1>5. \A x \in DsJobs : FreshOK(x)'
  BY SessionFacts
  DEF Inv, Stage, Begun, dsDisk, dsProcesses, dsAgentState, DsRemoved, FreshOK, WriteOK,
      Present
<1>6. \A x \in DsJobs : WorkerOK(x)'
  BY SessionFacts
  DEF Inv, Stage, dsDisk, dsProcesses, dsAgentState, DsRemoved, WorkerOK, WriteOK
<1>7. \A x \in DsJobs : LaunchOK(x)'
  BY SessionFacts
  DEF Inv, Stage, Launching, Alive, dsDisk, dsProcesses, dsAgentState, DsRemoved, LaunchOK,
      WriteOK, Present
<1>8. \A x \in DsJobs : LockOK(x)'
  BY SessionFacts
  DEF Inv, Stage, dsDisk, dsProcesses, dsAgentState, DsRemoved, LockOK, Present
<1>9. \A x \in DsJobs : OperationOK(x)'
  BY SessionFacts
  DEF Inv, Stage, Launching, dsDisk, dsProcesses, dsAgentState, DsRemoved, OperationOK,
      SameOperation, WriteOK, Present
<1>10. \A x \in DsJobs : ActiveOK(x)'
  BY SessionFacts
  DEF Inv, Stage, Alive, Active, dsDisk, dsProcesses, dsAgentState, DsRemoved, ActiveOK,
      WorkerOK, WriteOK, Present
<1> QED  BY <1>1, <1>2, <1>3, <1>4, <1>5, <1>6, <1>7, <1>8, <1>9, <1>10 DEF Inv

LEMMA WorkerStartsInv == ASSUME Inv, NEW j \in DsJobs, DsWorkerStarts(j) PROVE Inv'
<1>1. DsTypeOK'
  BY SessionFacts
  DEF Inv, DsTypeOK, Stage, dsDisk, dsProcesses, dsAgentState, DsWorkerStarts, dsWorkerFrame,
      WorkerTo
<1>2. AgentOK'
  BY SessionFacts
  DEF Inv, Stage, Alive, dsDisk, dsProcesses, dsAgentState, DsWorkerStarts, dsWorkerFrame,
      WorkerTo, AgentOK, Present
<1>3. OneActive'
  BY SessionFacts
  DEF Inv, DsTypeOK, Stage, Active, dsDisk, dsProcesses, dsAgentState, DsWorkerStarts,
      dsWorkerFrame, WorkerTo, OneActive, Excludes, SameOperation
<1>4. \A v \in dsWrites' : WriteOK(v)'
  BY SessionFacts
  DEF Inv, Stage, Alive, dsDisk, dsProcesses, dsAgentState, DsWorkerStarts, dsWorkerFrame,
      WorkerTo, WriteOK
<1>5. \A x \in DsJobs : FreshOK(x)'
  BY SessionFacts
  DEF Inv, DsTypeOK, Stage, Begun, dsDisk, dsProcesses, dsAgentState, DsWorkerStarts,
      dsWorkerFrame, WorkerTo, FreshOK, WriteOK, Present
<1>6. \A x \in DsJobs : WorkerOK(x)'
  BY SessionFacts
  DEF Inv, DsTypeOK, Stage, dsDisk, dsProcesses, dsAgentState, DsWorkerStarts, dsWorkerFrame,
      WorkerTo, WorkerOK, WriteOK
<1>7. \A x \in DsJobs : LaunchOK(x)'
  BY SessionFacts
  DEF Inv, Stage, Launching, Alive, dsDisk, dsProcesses, dsAgentState, DsWorkerStarts,
      dsWorkerFrame, WorkerTo, LaunchOK, WriteOK, Present
<1>8. \A x \in DsJobs : LockOK(x)'
  BY SessionFacts
  DEF Inv, Stage, dsDisk, dsProcesses, dsAgentState, DsWorkerStarts, dsWorkerFrame, WorkerTo,
      LockOK, Present
<1>9. \A x \in DsJobs : OperationOK(x)'
  BY SessionFacts
  DEF Inv, Stage, Launching, dsDisk, dsProcesses, dsAgentState, DsWorkerStarts, dsWorkerFrame,
      WorkerTo, OperationOK, SameOperation, WriteOK, Present
<1>10. \A x \in DsJobs : ActiveOK(x)'
  BY SessionFacts
  DEF Inv, DsTypeOK, Stage, Alive, Active, dsDisk, dsProcesses, dsAgentState,
      DsWorkerStarts, dsWorkerFrame, WorkerTo, ActiveOK, WorkerOK, WriteOK, Present
<1> QED  BY <1>1, <1>2, <1>3, <1>4, <1>5, <1>6, <1>7, <1>8, <1>9, <1>10 DEF Inv

LEMMA WorkerRegistersInv == ASSUME Inv, NEW j \in DsJobs, DsWorkerRegisters(j) PROVE Inv'
<1>1. DsTypeOK'
  BY SessionFacts
  DEF Inv, DsTypeOK, Stage, dsDisk, dsProcesses, dsAgentState, DsWorkerRegisters,
      dsWorkerFrame, WorkerTo
<1>2. AgentOK'
  BY SessionFacts
  DEF Inv, Stage, Alive, dsDisk, dsProcesses, dsAgentState, DsWorkerRegisters, dsWorkerFrame,
      WorkerTo, AgentOK, Present
<1>3. OneActive'
  BY SessionFacts
  DEF Inv, DsTypeOK, Stage, Active, dsDisk, dsProcesses, dsAgentState, DsWorkerRegisters,
      dsWorkerFrame, WorkerTo, OneActive, Excludes, SameOperation
<1>4. \A v \in dsWrites' : WriteOK(v)'
  BY SessionFacts
  DEF Inv, Stage, Alive, dsDisk, dsProcesses, dsAgentState, DsWorkerRegisters, dsWorkerFrame,
      WorkerTo, WriteOK
<1>5. \A x \in DsJobs : FreshOK(x)'
  BY SessionFacts
  DEF Inv, DsTypeOK, Stage, Begun, dsDisk, dsProcesses, dsAgentState, DsWorkerRegisters,
      dsWorkerFrame, WorkerTo, FreshOK, WriteOK, Present
<1>6. \A x \in DsJobs : WorkerOK(x)'
  BY SessionFacts
  DEF Inv, DsTypeOK, Stage, dsDisk, dsProcesses, dsAgentState, DsWorkerRegisters,
      dsWorkerFrame, WorkerTo, WorkerOK, WriteOK
<1>7. \A x \in DsJobs : LaunchOK(x)'
  BY SessionFacts
  DEF Inv, Stage, Launching, Alive, dsDisk, dsProcesses, dsAgentState, DsWorkerRegisters,
      dsWorkerFrame, WorkerTo, LaunchOK, WriteOK, Present
<1>8. \A x \in DsJobs : LockOK(x)'
  BY SessionFacts
  DEF Inv, Stage, dsDisk, dsProcesses, dsAgentState, DsWorkerRegisters, dsWorkerFrame,
      WorkerTo, LockOK, Present
<1>9. \A x \in DsJobs : OperationOK(x)'
  BY SessionFacts
  DEF Inv, Stage, Launching, dsDisk, dsProcesses, dsAgentState, DsWorkerRegisters,
      dsWorkerFrame, WorkerTo, OperationOK, SameOperation, WriteOK, Present
<1>10. \A x \in DsJobs : ActiveOK(x)'
  BY SessionFacts
  DEF Inv, DsTypeOK, Stage, Alive, Active, dsDisk, dsProcesses, dsAgentState,
      DsWorkerRegisters, dsWorkerFrame, WorkerTo, ActiveOK, WorkerOK, WriteOK, Present
<1> QED  BY <1>1, <1>2, <1>3, <1>4, <1>5, <1>6, <1>7, <1>8, <1>9, <1>10 DEF Inv

LEMMA CommandEndsInv == ASSUME Inv, NEW j \in DsJobs, DsCommandEnds(j) PROVE Inv'
<1>1. DsTypeOK'
  BY SessionFacts
  DEF Inv, DsTypeOK, Stage, dsDisk, dsProcesses, dsAgentState, DsCommandEnds, dsWorkerFrame
<1>2. AgentOK'
  BY SessionFacts
  DEF Inv, Stage, Alive, dsDisk, dsProcesses, dsAgentState, DsCommandEnds, dsWorkerFrame,
      AgentOK, Present
<1>3. OneActive'
  BY SessionFacts
  DEF Inv, Stage, Active, dsDisk, dsProcesses, dsAgentState, DsCommandEnds, dsWorkerFrame,
      OneActive, Excludes, SameOperation
<1>4. \A v \in dsWrites' : WriteOK(v)'
  BY SessionFacts
  DEF Inv, Stage, Alive, dsDisk, dsProcesses, dsAgentState, DsCommandEnds, dsWorkerFrame,
      WriteOK
<1>5. \A x \in DsJobs : FreshOK(x)'
  BY SessionFacts
  DEF Inv, Stage, Begun, dsDisk, dsProcesses, dsAgentState, DsCommandEnds, dsWorkerFrame,
      FreshOK, WriteOK, Present
<1>6. \A x \in DsJobs : WorkerOK(x)'
  BY SessionFacts
  DEF Inv, Stage, dsDisk, dsProcesses, dsAgentState, DsCommandEnds, dsWorkerFrame, WorkerOK,
      WriteOK
<1>7. \A x \in DsJobs : LaunchOK(x)'
  BY SessionFacts
  DEF Inv, Stage, Launching, Alive, dsDisk, dsProcesses, dsAgentState, DsCommandEnds,
      dsWorkerFrame, LaunchOK, WriteOK, Present
<1>8. \A x \in DsJobs : LockOK(x)'
  BY SessionFacts
  DEF Inv, Stage, dsDisk, dsProcesses, dsAgentState, DsCommandEnds, dsWorkerFrame, LockOK,
      Present
<1>9. \A x \in DsJobs : OperationOK(x)'
  BY SessionFacts
  DEF Inv, Stage, Launching, dsDisk, dsProcesses, dsAgentState, DsCommandEnds, dsWorkerFrame,
      OperationOK, SameOperation, WriteOK, Present
<1>10. \A x \in DsJobs : ActiveOK(x)'
  BY SessionFacts
  DEF Inv, Stage, Alive, Active, dsDisk, dsProcesses, dsAgentState, DsCommandEnds,
      dsWorkerFrame, ActiveOK, WorkerOK, WriteOK, Present
<1> QED  BY <1>1, <1>2, <1>3, <1>4, <1>5, <1>6, <1>7, <1>8, <1>9, <1>10 DEF Inv

LEMMA ResultInv == ASSUME Inv, NEW j \in DsJobs, DsResult(j) PROVE Inv'
<1>1. DsTypeOK'
  BY SessionFacts
  DEF Inv, DsTypeOK, Stage, dsDisk, dsProcesses, dsAgentState, DsResult, dsWorkerFrame,
      WorkerTo
<1>2. AgentOK'
  BY SessionFacts
  DEF Inv, Stage, Alive, dsDisk, dsProcesses, dsAgentState, DsResult, dsWorkerFrame, WorkerTo,
      AgentOK, Present
<1>3. OneActive'
  BY SessionFacts
  DEF Inv, Stage, Active, dsDisk, dsProcesses, dsAgentState, DsResult, dsWorkerFrame,
      WorkerTo, OneActive, Excludes, SameOperation
<1>4. \A v \in dsWrites' : WriteOK(v)'
  BY SessionFacts
  DEF Inv, Stage, Alive, dsDisk, dsProcesses, dsAgentState, DsResult, dsWorkerFrame, WorkerTo,
      WriteOK
<1>5. \A x \in DsJobs : FreshOK(x)'
  BY SessionFacts
  DEF Inv, Stage, Begun, dsDisk, dsProcesses, dsAgentState, DsResult, dsWorkerFrame, WorkerTo,
      FreshOK, WriteOK, Present
<1>6. \A x \in DsJobs : WorkerOK(x)'
  BY SessionFacts
  DEF Inv, DsTypeOK, Stage, dsDisk, dsProcesses, dsAgentState, DsResult, dsWorkerFrame,
      WorkerTo, WorkerOK, WriteOK
<1>7. \A x \in DsJobs : LaunchOK(x)'
  BY SessionFacts
  DEF Inv, Stage, Launching, Alive, dsDisk, dsProcesses, dsAgentState, DsResult,
      dsWorkerFrame, WorkerTo, LaunchOK, WriteOK, Present
<1>8. \A x \in DsJobs : LockOK(x)'
  BY SessionFacts
  DEF Inv, Stage, dsDisk, dsProcesses, dsAgentState, DsResult, dsWorkerFrame, WorkerTo,
      LockOK, Present
<1>9. \A x \in DsJobs : OperationOK(x)'
  BY SessionFacts
  DEF Inv, Stage, Launching, dsDisk, dsProcesses, dsAgentState, DsResult, dsWorkerFrame,
      WorkerTo, OperationOK, SameOperation, WriteOK, Present
<1>10. \A x \in DsJobs : ActiveOK(x)'
  BY SessionFacts
  DEF Inv, Stage, Alive, Active, dsDisk, dsProcesses, dsAgentState, DsResult, dsWorkerFrame,
      WorkerTo, ActiveOK, WorkerOK, WriteOK, Present
<1> QED  BY <1>1, <1>2, <1>3, <1>4, <1>5, <1>6, <1>7, <1>8, <1>9, <1>10 DEF Inv

LEMMA WorkerDiesInv == ASSUME Inv, NEW j \in DsJobs, DsWorkerDies(j) PROVE Inv'
<1>1. DsTypeOK'
  BY SessionFacts
  DEF Inv, DsTypeOK, Stage, dsDisk, dsProcesses, dsAgentState, DsWorkerDies, dsWorkerFrame,
      WorkerTo
<1>2. AgentOK'
  BY SessionFacts
  DEF Inv, Stage, Alive, dsDisk, dsProcesses, dsAgentState, DsWorkerDies, dsWorkerFrame, WorkerTo,
      AgentOK, Present
<1>3. OneActive'
  BY SessionFacts
  DEF Inv, Stage, Active, dsDisk, dsProcesses, dsAgentState, DsWorkerDies, dsWorkerFrame,
      WorkerTo, OneActive, Excludes, SameOperation
<1>4. \A v \in dsWrites' : WriteOK(v)'
  BY SessionFacts
  DEF Inv, Stage, Alive, dsDisk, dsProcesses, dsAgentState, DsWorkerDies, dsWorkerFrame, WorkerTo,
      WriteOK
<1>5. \A x \in DsJobs : FreshOK(x)'
  BY SessionFacts
  DEF Inv, Stage, Begun, dsDisk, dsProcesses, dsAgentState, DsWorkerDies, dsWorkerFrame, WorkerTo,
      FreshOK, WriteOK, Present
<1>6. \A x \in DsJobs : WorkerOK(x)'
  BY SessionFacts
  DEF Inv, DsTypeOK, Stage, dsDisk, dsProcesses, dsAgentState, DsWorkerDies, dsWorkerFrame,
      WorkerTo, WorkerOK, WriteOK
<1>7. \A x \in DsJobs : LaunchOK(x)'
  BY SessionFacts
  DEF Inv, Stage, Launching, Alive, dsDisk, dsProcesses, dsAgentState, DsWorkerDies,
      dsWorkerFrame, WorkerTo, LaunchOK, WriteOK, Present
<1>8. \A x \in DsJobs : LockOK(x)'
  BY SessionFacts
  DEF Inv, Stage, dsDisk, dsProcesses, dsAgentState, DsWorkerDies, dsWorkerFrame, WorkerTo,
      LockOK, Present
<1>9. \A x \in DsJobs : OperationOK(x)'
  BY SessionFacts
  DEF Inv, Stage, Launching, dsDisk, dsProcesses, dsAgentState, DsWorkerDies, dsWorkerFrame,
      WorkerTo, OperationOK, SameOperation, WriteOK, Present
<1>10. \A x \in DsJobs : ActiveOK(x)'
  BY SessionFacts
  DEF Inv, Stage, Alive, Active, dsDisk, dsProcesses, dsAgentState, DsWorkerDies, dsWorkerFrame,
      WorkerTo, ActiveOK, WorkerOK, WriteOK, Present
<1> QED  BY <1>1, <1>2, <1>3, <1>4, <1>5, <1>6, <1>7, <1>8, <1>9, <1>10 DEF Inv

LEMMA TickFindsInv == ASSUME Inv, NEW j \in DsJobs, DsTickFinds(j) PROVE Inv'
<1>1. DsTypeOK'
  BY SessionFacts
  DEF Inv, DsTypeOK, Stage, dsDisk, dsProcesses, dsAgentState, DsTickFinds, agentFrame,
      Watched, To, DsSessions, Present
<1>2. AgentOK'
  BY SessionFacts
  DEF Inv, Stage, Alive, dsDisk, dsProcesses, dsAgentState, DsTickFinds, agentFrame,
      Watched, To, AgentOK
<1>3. OneActive'
  BY SessionFacts
  DEF Inv, Stage, Active, dsDisk, dsProcesses, dsAgentState, DsTickFinds, agentFrame,
      Watched, To, OneActive, Excludes, SameOperation
<1>4. \A v \in dsWrites' : WriteOK(v)'
  BY SessionFacts
  DEF Inv, Stage, Alive, dsDisk, dsProcesses, dsAgentState, DsTickFinds, agentFrame,
      Watched, To, WriteOK
<1>5. \A x \in DsJobs : FreshOK(x)'
  BY SessionFacts
  DEF Inv, Stage, Begun, dsDisk, dsProcesses, dsAgentState, DsTickFinds, agentFrame,
      Watched, To, FreshOK, WriteOK, Present
<1>6. \A x \in DsJobs : WorkerOK(x)'
  BY SessionFacts
  DEF Inv, Stage, dsDisk, dsProcesses, dsAgentState, DsTickFinds, agentFrame, Watched, To,
      WorkerOK, WriteOK
<1>7. \A x \in DsJobs : LaunchOK(x)'
  BY SessionFacts
  DEF Inv, Stage, Alive, dsDisk, dsProcesses, dsAgentState, DsTickFinds, agentFrame,
      Watched, To, LaunchOK, WriteOK, Present
<1>8. \A x \in DsJobs : LockOK(x)'
  BY SessionFacts
  DEF Inv, Stage, dsDisk, dsProcesses, dsAgentState, DsTickFinds, agentFrame, Watched, To,
      LockOK, Present
<1>9. \A x \in DsJobs : OperationOK(x)'
  BY SessionFacts
  DEF Inv, Stage, Launching, dsDisk, dsProcesses, dsAgentState, DsTickFinds, agentFrame,
      Watched, To, OperationOK, SameOperation, WriteOK, Present
<1>10. \A x \in DsJobs : ActiveOK(x)'
  BY SessionFacts
  DEF Inv, Stage, Active, dsDisk, dsProcesses, dsAgentState, DsTickFinds, agentFrame,
      Watched, To, ActiveOK, WorkerOK, WriteOK, Present
<1> QED  BY <1>1, <1>2, <1>3, <1>4, <1>5, <1>6, <1>7, <1>8, <1>9, <1>10 DEF Inv

LEMMA TickSeesExitInv == ASSUME Inv, NEW j \in DsJobs, DsTickSeesExit(j) PROVE Inv'
<1>0. /\ UNCHANGED <<dsAgentState, dsCall, dsHolder, dsWrites, dsRemoving, dsDisk, dsProcesses>>
      /\ Alive /\ Stage(j, {"watched", "exited"}) /\ dsWorker[j] = "gone"
      /\ dsSession'[j] = [stage |-> dsSession'[j].stage, dir |-> dsSession[j].dir]
      /\ dsSession'[j] \in DsSessions /\ dsSession'[j] # DsNobody
      /\ \/ dsSession'[j].stage = "exited" /\ dsGivenUp' = dsGivenUp
         \/ dsSession'[j].stage = "found" /\ dsGivenUp' = dsGivenUp \cup ({j} \cap dsRunning)
      /\ \A x \in DsJobs \ {j} : dsSession'[x] = dsSession[x]
  <2>1. /\ UNCHANGED <<dsAgentState, dsCall, dsHolder, dsWrites, dsRemoving, dsDisk, dsProcesses>>
        /\ Alive /\ Stage(j, {"watched", "exited"}) /\ dsWorker[j] = "gone"
    BY DEF DsTickSeesExit, Watched, Dead
  <2>2. PICK stage \in {"exited", "found"} :
          /\ dsSession' = [dsSession EXCEPT ![j].stage = stage]
          /\ \/ stage = "exited" /\ dsGivenUp' = dsGivenUp
             \/ stage = "found" /\ dsGivenUp' = dsGivenUp \cup ({j} \cap dsRunning)
    BY DEF DsTickSeesExit, To
  <2>3. dsSession[j] \in DsSessions
    BY <2>1 DEF Inv, DsTypeOK, Stage, Present
  <2>4. /\ dsSession'[j] = [dsSession[j] EXCEPT !.stage = stage]
        /\ \A x \in DsJobs \ {j} : dsSession'[x] = dsSession[x]
    BY <2>2 DEF Inv, DsTypeOK
  <2>5. dsSession'[j] = [stage |-> stage, dir |-> dsSession[j].dir] /\ dsSession[j].dir \in BOOLEAN
    BY <2>3, <2>4 DEF DsSessions
  <2>6. dsSession'[j] \in DsSessions /\ dsSession'[j].stage = stage
    BY <2>5, SessionFacts
  <2> QED  BY <2>1, <2>2, <2>4, <2>5, <2>6, SessionFacts
<1>1. DsTypeOK'
  BY <1>0, SessionFacts
  DEF Inv, DsTypeOK, dsDisk, dsProcesses, dsAgentState, DsTickSeesExit, To
<1>2. AgentOK'
  BY <1>0, SessionFacts
  DEF Inv, Stage, Alive, dsDisk, dsProcesses, dsAgentState, AgentOK
<1>3. OneActive'
  BY <1>0, SessionFacts
  DEF Inv, Stage, Active, dsDisk, dsProcesses, dsAgentState, OneActive, Excludes, SameOperation
<1>4. \A v \in dsWrites' : WriteOK(v)'
  BY <1>0, SessionFacts
  DEF Inv, Stage, Alive, dsDisk, dsProcesses, dsAgentState, WriteOK
<1>5. \A x \in DsJobs : FreshOK(x)'
  BY <1>0, SessionFacts
  DEF Inv, Stage, Begun, dsDisk, dsProcesses, dsAgentState, FreshOK, WriteOK, Present
<1>6. \A x \in DsJobs : WorkerOK(x)'
  BY <1>0, SessionFacts
  DEF Inv, Stage, dsDisk, dsProcesses, dsAgentState, WorkerOK, WriteOK
<1>7. \A x \in DsJobs : LaunchOK(x)'
  BY <1>0, SessionFacts
  DEF Inv, Stage, Alive, dsDisk, dsProcesses, dsAgentState, LaunchOK, WriteOK, Present
<1>8. \A x \in DsJobs : LockOK(x)'
  BY <1>0, SessionFacts
  DEF Inv, Stage, dsDisk, dsProcesses, dsAgentState, LockOK, Present
<1>9. \A x \in DsJobs : OperationOK(x)'
  BY <1>0, SessionFacts
  DEF Inv, Stage, Launching, dsDisk, dsProcesses, dsAgentState, OperationOK, SameOperation, WriteOK, Present
<1>10. \A x \in DsJobs : ActiveOK(x)'
  BY <1>0, SessionFacts
  DEF Inv, Stage, Active, dsDisk, dsProcesses, dsAgentState, ActiveOK, WorkerOK, WriteOK, Present
<1> QED  BY <1>1, <1>2, <1>3, <1>4, <1>5, <1>6, <1>7, <1>8, <1>9, <1>10 DEF Inv

LEMMA CompleteInv == ASSUME Inv, NEW j \in DsJobs, DsComplete(j) PROVE Inv'
<1>1. DsTypeOK'
  BY SessionFacts
  DEF Inv, DsTypeOK, Stage, dsDisk, dsProcesses, dsAgentState, DsComplete, agentFrame, To,
      DsSessions, Present
<1>2. AgentOK'
  BY SessionFacts
  DEF Inv, Stage, Alive, dsDisk, dsProcesses, dsAgentState, DsComplete, agentFrame, To,
      AgentOK
<1>3. OneActive'
  BY SessionFacts
  DEF Inv, Stage, Active, dsDisk, dsProcesses, dsAgentState, DsComplete, agentFrame, To,
      OneActive, Excludes, SameOperation
<1>4. \A v \in dsWrites' : WriteOK(v)'
  BY SessionFacts
  DEF Inv, Stage, Alive, dsDisk, dsProcesses, dsAgentState, DsComplete, agentFrame, To,
      WriteOK
<1>5. \A x \in DsJobs : FreshOK(x)'
  BY SessionFacts
  DEF Inv, Stage, Begun, dsDisk, dsProcesses, dsAgentState, DsComplete, agentFrame, To,
      FreshOK, WriteOK, Present
<1>6. \A x \in DsJobs : WorkerOK(x)'
  BY SessionFacts
  DEF Inv, Stage, dsDisk, dsProcesses, dsAgentState, DsComplete, agentFrame, To, WorkerOK,
      WriteOK
<1>7. \A x \in DsJobs : LaunchOK(x)'
  BY SessionFacts
  DEF Inv, Stage, Alive, dsDisk, dsProcesses, dsAgentState, DsComplete, agentFrame, To,
      LaunchOK, WriteOK, Present
<1>8. \A x \in DsJobs : LockOK(x)'
  BY SessionFacts
  DEF Inv, Stage, dsDisk, dsProcesses, dsAgentState, DsComplete, agentFrame, To, LockOK,
      Present
<1>9. \A x \in DsJobs : OperationOK(x)'
  BY SessionFacts
  DEF Inv, Stage, Launching, dsDisk, dsProcesses, dsAgentState, DsComplete, agentFrame, To,
      OperationOK, SameOperation, WriteOK, Present
<1>10. \A x \in DsJobs : ActiveOK(x)'
  BY SessionFacts
  DEF Inv, Stage, Active, dsDisk, dsProcesses, dsAgentState, DsComplete, agentFrame, To,
      ActiveOK, WorkerOK, WriteOK, Present
<1> QED  BY <1>1, <1>2, <1>3, <1>4, <1>5, <1>6, <1>7, <1>8, <1>9, <1>10 DEF Inv

LEMMA FinishInv == ASSUME Inv, NEW j \in DsJobs, DsFinish(j) PROVE Inv'
<1>1. DsTypeOK'
  BY SessionFacts
  DEF Inv, DsTypeOK, Stage, dsDisk, dsProcesses, dsAgentState, DsFinish, agentFrame, To,
      Unlock, Persist, SnapshotOf, DsSessions, Present
<1>2. AgentOK'
  BY SessionFacts
  DEF Inv, Stage, Alive, dsDisk, dsProcesses, dsAgentState, DsFinish, agentFrame, To,
      Unlock, SnapshotOf, AgentOK
<1>3. OneActive'
  BY SessionFacts
  DEF Inv, Stage, Active, dsDisk, dsProcesses, dsAgentState, DsFinish, agentFrame, To,
      Unlock, SnapshotOf, OneActive, Excludes, SameOperation
<1>4. \A v \in dsWrites' : WriteOK(v)'
  BY SessionFacts
  DEF Inv, Stage, Alive, dsDisk, dsProcesses, dsAgentState, DsFinish, agentFrame, To,
      Unlock, Persist, SnapshotOf, WriteOK
<1>5. \A x \in DsJobs : FreshOK(x)'
  BY SessionFacts
  DEF Inv, Stage, Begun, dsDisk, dsProcesses, dsAgentState, DsFinish, agentFrame, To,
      Unlock, Persist, SnapshotOf, FreshOK, WriteOK, Present
<1>6. \A x \in DsJobs : WorkerOK(x)'
  BY SessionFacts
  DEF Inv, Stage, dsDisk, dsProcesses, dsAgentState, DsFinish, agentFrame, To, Unlock,
      SnapshotOf, WorkerOK, WriteOK
<1>7. \A x \in DsJobs : LaunchOK(x)'
  BY SessionFacts
  DEF Inv, Stage, Alive, dsDisk, dsProcesses, dsAgentState, DsFinish, agentFrame, To,
      Unlock, SnapshotOf, LaunchOK, WriteOK, Present
<1>8. \A x \in DsJobs : LockOK(x)'
  BY SessionFacts
  DEF Inv, DsTypeOK, Stage, dsDisk, dsProcesses, dsAgentState, DsFinish, agentFrame, To,
      Unlock, SnapshotOf, LockOK, Present
<1>9. \A x \in DsJobs : OperationOK(x)'
  BY SessionFacts
  DEF Inv, Stage, Launching, dsDisk, dsProcesses, dsAgentState, DsFinish, agentFrame, To,
      Unlock, SnapshotOf, OperationOK, SameOperation, WriteOK, Present
<1>10. \A x \in DsJobs : ActiveOK(x)'
  BY SessionFacts
  DEF Inv, Stage, Active, dsDisk, dsProcesses, dsAgentState, DsFinish, agentFrame, To,
      Unlock, Persist, SnapshotOf, ActiveOK, WorkerOK, LaunchOK, WriteOK, Present
<1> QED  BY <1>1, <1>2, <1>3, <1>4, <1>5, <1>6, <1>7, <1>8, <1>9, <1>10 DEF Inv

LEMMA SaveInv == ASSUME Inv, NEW j \in DsJobs, DsSave(j) PROVE Inv'
<1>1. DsTypeOK'
  BY SessionFacts
  DEF Inv, DsTypeOK, Stage, dsDisk, dsProcesses, dsAgentState, DsSave, agentFrame, Persist,
      SnapshotOf, Saving
<1>2. AgentOK'
  BY SessionFacts
  DEF Inv, Stage, Alive, dsDisk, dsProcesses, dsAgentState, DsSave, agentFrame, SnapshotOf,
      Saving, AgentOK
<1>3. OneActive'
  BY SessionFacts
  DEF Inv, Stage, Active, dsDisk, dsProcesses, dsAgentState, DsSave, agentFrame, SnapshotOf,
      Saving, OneActive, Excludes, SameOperation
<1>4. \A v \in dsWrites' : WriteOK(v)'
  BY SessionFacts
  DEF Inv, Stage, Alive, dsDisk, dsProcesses, dsAgentState, DsSave, agentFrame, Persist,
      SnapshotOf, Saving, WriteOK
<1>5. \A x \in DsJobs : FreshOK(x)'
  BY SessionFacts
  DEF Inv, Stage, Begun, dsDisk, dsProcesses, dsAgentState, DsSave, agentFrame, Persist,
      SnapshotOf, Saving, FreshOK, WriteOK, Present
<1>6. \A x \in DsJobs : WorkerOK(x)'
  BY SessionFacts
  DEF Inv, Stage, dsDisk, dsProcesses, dsAgentState, DsSave, agentFrame, SnapshotOf, Saving,
      WorkerOK, WriteOK
<1>7. \A x \in DsJobs : LaunchOK(x)'
  BY SessionFacts
  DEF Inv, Stage, Alive, dsDisk, dsProcesses, dsAgentState, DsSave, agentFrame, SnapshotOf,
      Saving, LaunchOK, WriteOK, Present
<1>8. \A x \in DsJobs : LockOK(x)'
  BY SessionFacts
  DEF Inv, Stage, dsDisk, dsProcesses, dsAgentState, DsSave, agentFrame, SnapshotOf, Saving,
      LockOK, Present
<1>9. \A x \in DsJobs : OperationOK(x)'
  BY SessionFacts
  DEF Inv, Stage, Launching, dsDisk, dsProcesses, dsAgentState, DsSave, agentFrame,
      SnapshotOf, Saving, OperationOK, SameOperation, WriteOK, Present
<1>10. \A x \in DsJobs : ActiveOK(x)'
  BY SessionFacts
  DEF Inv, Stage, Active, dsDisk, dsProcesses, dsAgentState, DsSave, agentFrame, Persist,
      SnapshotOf, Saving, ActiveOK, WorkerOK, WriteOK, Present
<1> QED  BY <1>1, <1>2, <1>3, <1>4, <1>5, <1>6, <1>7, <1>8, <1>9, <1>10 DEF Inv

LEMMA KillInv == ASSUME Inv, NEW j \in DsJobs, DsKill(j) PROVE Inv'
<1>1. DsTypeOK'
  BY SessionFacts
  DEF Inv, DsTypeOK, Stage, dsDisk, dsProcesses, dsAgentState, DsKill, Persist, SnapshotOf
<1>2. AgentOK'
  BY SessionFacts
  DEF Inv, Stage, Alive, dsDisk, dsProcesses, dsAgentState, DsKill, SnapshotOf, AgentOK
<1>3. OneActive'
  BY SessionFacts
  DEF Inv, Stage, Active, dsDisk, dsProcesses, dsAgentState, DsKill, SnapshotOf, OneActive,
      Excludes, SameOperation
<1>4. \A v \in dsWrites' : WriteOK(v)'
  BY SessionFacts
  DEF Inv, Stage, Alive, dsDisk, dsProcesses, dsAgentState, DsKill, Persist, SnapshotOf,
      WriteOK
<1>5. \A x \in DsJobs : FreshOK(x)'
  BY SessionFacts
  DEF Inv, Stage, Begun, dsDisk, dsProcesses, dsAgentState, DsKill, Persist, SnapshotOf,
      FreshOK, WriteOK, Present
<1>6. \A x \in DsJobs : WorkerOK(x)'
  BY SessionFacts
  DEF Inv, Stage, dsDisk, dsProcesses, dsAgentState, DsKill, SnapshotOf, WorkerOK, WriteOK
<1>7. \A x \in DsJobs : LaunchOK(x)'
  BY SessionFacts
  DEF Inv, Stage, Alive, dsDisk, dsProcesses, dsAgentState, DsKill, SnapshotOf, LaunchOK,
      WriteOK, Present
<1>8. \A x \in DsJobs : LockOK(x)'
  BY SessionFacts
  DEF Inv, Stage, dsDisk, dsProcesses, dsAgentState, DsKill, SnapshotOf, LockOK, Present
<1>9. \A x \in DsJobs : OperationOK(x)'
  BY SessionFacts
  DEF Inv, Stage, Launching, dsDisk, dsProcesses, dsAgentState, DsKill, SnapshotOf,
      OperationOK, SameOperation, WriteOK, Present
<1>10. \A x \in DsJobs : ActiveOK(x)'
  BY SessionFacts
  DEF Inv, Stage, Active, dsDisk, dsProcesses, dsAgentState, DsKill, Persist, SnapshotOf,
      ActiveOK, WorkerOK, WriteOK, Present
<1> QED  BY <1>1, <1>2, <1>3, <1>4, <1>5, <1>6, <1>7, <1>8, <1>9, <1>10 DEF Inv

LEMMA EvictInv == ASSUME Inv, NEW j \in DsJobs, DsEvict(j) PROVE Inv'
<1>1. DsTypeOK'
  BY SessionFacts
  DEF Inv, DsTypeOK, Stage, dsDisk, dsProcesses, dsAgentState, DsEvict, agentFrame, Remove,
      Unlock
<1>2. AgentOK'
  BY SessionFacts
  DEF Inv, Stage, Alive, dsDisk, dsProcesses, dsAgentState, DsEvict, agentFrame, Remove,
      Unlock, AgentOK
<1>3. OneActive'
  BY SessionFacts
  DEF Inv, Stage, Active, dsDisk, dsProcesses, dsAgentState, DsEvict, agentFrame, Remove,
      Unlock, OneActive, Excludes, SameOperation
<1>4. \A v \in dsWrites' : WriteOK(v)'
  BY SessionFacts
  DEF Inv, Stage, Alive, dsDisk, dsProcesses, dsAgentState, DsEvict, agentFrame, Remove,
      Unlock, WriteOK
<1>5. \A x \in DsJobs : FreshOK(x)'
  BY SessionFacts
  DEF Inv, Stage, Finalized, Begun, dsDisk, dsProcesses, dsAgentState, DsEvict, agentFrame,
      Remove, Unlock, FreshOK, WriteOK, Present
<1>6. \A x \in DsJobs : WorkerOK(x)'
  BY SessionFacts
  DEF Inv, Stage, dsDisk, dsProcesses, dsAgentState, DsEvict, agentFrame, Remove, Unlock,
      WorkerOK, WriteOK
<1>7. \A x \in DsJobs : LaunchOK(x)'
  BY SessionFacts
  DEF Inv, Stage, Finalized, Alive, dsDisk, dsProcesses, dsAgentState, DsEvict, agentFrame,
      Remove, Unlock, LaunchOK, WriteOK, Present
<1>8. \A x \in DsJobs : LockOK(x)'
  BY SessionFacts
  DEF Inv, DsTypeOK, Stage, dsDisk, dsProcesses, dsAgentState, DsEvict, agentFrame, Remove,
      Unlock, LockOK, Present
<1>9. \A x \in DsJobs : OperationOK(x)'
  BY SessionFacts
  DEF Inv, Stage, Launching, dsDisk, dsProcesses, dsAgentState, DsEvict, agentFrame, Remove,
      Unlock, OperationOK, SameOperation, WriteOK, Present
<1>10. \A x \in DsJobs : ActiveOK(x)'
  BY SessionFacts
  DEF Inv, Stage, Finalized, Active, dsDisk, dsProcesses, dsAgentState, DsEvict, agentFrame,
      Remove, Unlock, ActiveOK, WorkerOK, LaunchOK, WriteOK, Present
<1> QED  BY <1>1, <1>2, <1>3, <1>4, <1>5, <1>6, <1>7, <1>8, <1>9, <1>10 DEF Inv

LEMMA RestoreInv == ASSUME Inv, NEW j \in DsJobs, DsRestore(j) PROVE Inv'
<1>0. /\ dsSession'[j] # DsNobody /\ dsSession'[j] \in DsSessions
      /\ dsSession'[j].stage = IF dsSnapshot[j] = "final" THEN "final" ELSE "unwatched"
      /\ \A x \in DsJobs \ {j} : dsSession'[x] = dsSession[x]
  BY SessionFacts DEF DsRestore, Restored, Inv, DsTypeOK
<1>1. DsTypeOK'
  BY <1>0, SessionFacts
  DEF Inv, DsTypeOK, Stage, dsDisk, dsProcesses, dsAgentState, DsRestore, restoreFrame,
      Restored
<1>2. AgentOK'
  BY <1>0, SessionFacts
  DEF Inv, Stage, Alive, dsDisk, dsProcesses, dsAgentState, DsRestore, restoreFrame,
      Restored, AgentOK
<1>3. OneActive'
  BY <1>0, SessionFacts
  DEF Inv, Stage, Active, dsDisk, dsProcesses, dsAgentState, DsRestore, restoreFrame,
      Restored, OneActive, Excludes, SameOperation
<1>4. \A v \in dsWrites' : WriteOK(v)'
  BY <1>0, SessionFacts
  DEF Inv, Stage, Alive, dsDisk, dsProcesses, dsAgentState, DsRestore, restoreFrame,
      Restored, WriteOK
<1>5. \A x \in DsJobs : FreshOK(x)'
  BY <1>0, SessionFacts
  DEF Inv, Stage, Begun, dsDisk, dsProcesses, dsAgentState, DsRestore, restoreFrame,
      Restored, FreshOK, AgentOK, WriteOK, Present
<1>6. \A x \in DsJobs : WorkerOK(x)'
  BY <1>0, SessionFacts
  DEF Inv, Stage, dsDisk, dsProcesses, dsAgentState, DsRestore, restoreFrame, Restored,
      WorkerOK, WriteOK
<1>7. \A x \in DsJobs : LaunchOK(x)'
  BY <1>0, SessionFacts
  DEF Inv, Stage, Launching, Alive, dsDisk, dsProcesses, dsAgentState, DsRestore,
      restoreFrame, Restored, LaunchOK, WriteOK
<1>8. \A x \in DsJobs : LockOK(x)'
  BY <1>0, DsAssumption, SessionFacts
  DEF Inv, Stage, dsDisk, dsProcesses, dsAgentState, DsRestore, restoreFrame, Restored,
      LockOK, Present
<1>9. \A x \in DsJobs : OperationOK(x)'
  BY <1>0, SessionFacts
  DEF Inv, Stage, Launching, Alive, dsDisk, dsProcesses, dsAgentState, DsRestore,
      restoreFrame, Restored, OperationOK, SameOperation, LaunchOK, WriteOK
<1>10. \A x \in DsJobs : ActiveOK(x)'
  BY <1>0, SessionFacts
  DEF Inv, Stage, Alive, Active, dsDisk, dsProcesses, dsAgentState, DsRestore, restoreFrame,
      Restored, ActiveOK, WorkerOK, WriteOK, Present
<1> QED  BY <1>1, <1>2, <1>3, <1>4, <1>5, <1>6, <1>7, <1>8, <1>9, <1>10 DEF Inv

LEMMA WrittenInv == ASSUME Inv, NEW w \in dsWrites, DsWritten(w) PROVE Inv'
<1>0. /\ w.job \in DsJobs /\ (w.by = "launch" => Stage(w.job, {"launching"}))
      /\ \A x \in DsJobs : w.by = "launch" /\ x # w.job => dsSession'[x] = dsSession[x]
      /\ w.by = "launch" => /\ dsSession'[w.job] = [stage |-> "watched", dir |-> dsSession[w.job].dir]
                            /\ dsSession'[w.job] \in DsSessions /\ dsSession'[w.job] # DsNobody
      /\ w.by # "launch" => dsSession' = dsSession
  <2>1. w.job \in DsJobs /\ (w.by = "launch" => Stage(w.job, {"launching"}))
    BY DEF Inv, DsTypeOK, WriteOK, LaunchOK
  <2>2. w.by = "launch" => dsSession[w.job] \in DsSessions
    BY <2>1 DEF Inv, DsTypeOK, Stage, Present
  <2>3. w.by = "launch" =>
          [dsSession[w.job] EXCEPT !.stage = "watched"] = [stage |-> "watched", dir |-> dsSession[w.job].dir]
    BY <2>2, SessionFacts
  <2>4. w.by = "launch" => dsSession[w.job].dir \in BOOLEAN
    BY <2>2 DEF DsSessions
  <2> QED  BY <2>1, <2>2, <2>3, <2>4, SessionFacts DEF DsWritten, To, Inv, DsTypeOK
<1>1. DsTypeOK'
  BY <1>0, SessionFacts
  DEF Inv, DsTypeOK, Stage, dsDisk, dsProcesses, dsAgentState, DsWritten, DsGoTo, To
<1>2. AgentOK'
  BY <1>0, SessionFacts
  DEF Inv, Stage, Alive, dsDisk, dsProcesses, dsAgentState, DsWritten, To, AgentOK
<1>3. OneActive'
  BY <1>0, SessionFacts
  DEF Inv, Stage, Active, dsDisk, dsProcesses, dsAgentState, DsWritten, To, OneActive,
      Excludes, SameOperation
<1>4. \A v \in dsWrites' : WriteOK(v)'
  BY <1>0, SessionFacts
  DEF Inv, DsTypeOK, Stage, Alive, dsDisk, dsProcesses, dsAgentState, DsWritten, DsGoTo, To,
      WriteOK
<1>5. \A x \in DsJobs : FreshOK(x)'
  BY <1>0, SessionFacts
  DEF Inv, DsTypeOK, Stage, Begun, dsDisk, dsProcesses, dsAgentState, DsWritten, DsGoTo, To,
      FreshOK, WriteOK, Present
<1>6. \A x \in DsJobs : WorkerOK(x)'
  BY <1>0, SessionFacts
  DEF Inv, DsTypeOK, Stage, dsDisk, dsProcesses, dsAgentState, DsWritten, DsGoTo, To,
      WorkerOK, WriteOK
<1>7. \A x \in DsJobs : LaunchOK(x)'
  BY <1>0, SessionFacts
  DEF Inv, DsTypeOK, Stage, Alive, dsDisk, dsProcesses, dsAgentState, DsWritten, DsGoTo, To,
      LaunchOK, WriteOK, Present
<1>8. \A x \in DsJobs : LockOK(x)'
  BY <1>0, SessionFacts
  DEF Inv, Stage, dsDisk, dsProcesses, dsAgentState, DsWritten, To, LockOK, Present
<1>9. \A x \in DsJobs : OperationOK(x)'
  BY <1>0, SessionFacts
  DEF Inv, DsTypeOK, Stage, Launching, dsDisk, dsProcesses, dsAgentState, DsWritten, DsGoTo,
      To, OperationOK, SameOperation, WriteOK, Present
<1>10. \A x \in DsJobs : ActiveOK(x)'
  BY <1>0, SessionFacts
  DEF Inv, DsTypeOK, Stage, Alive, Active, dsDisk, dsProcesses, dsAgentState, DsWritten,
      DsGoTo, To, ActiveOK, WorkerOK, WriteOK, Present
<1> QED  BY <1>1, <1>2, <1>3, <1>4, <1>5, <1>6, <1>7, <1>8, <1>9, <1>10 DEF Inv

LEMMA ExitInv == ASSUME Inv, DsExit PROVE Inv'
<1>1. DsTypeOK'
  BY DsAssumption, SessionFacts
  DEF Inv, DsTypeOK, Stage, dsDisk, dsProcesses, dsAgentState, DsExit
<1>2. AgentOK'
  BY SessionFacts DEF Stage, dsDisk, dsProcesses, dsAgentState, DsExit, AgentOK, Present
<1>3. OneActive'
  BY SessionFacts
  DEF Inv, Stage, Active, dsDisk, dsProcesses, dsAgentState, DsExit, OneActive, Excludes,
      SameOperation
<1>4. \A v \in dsWrites' : WriteOK(v)'
  BY SessionFacts DEF Stage, dsDisk, dsProcesses, dsAgentState, DsExit, WriteOK
<1>5. \A x \in DsJobs : FreshOK(x)'
  BY SessionFacts
  DEF Inv, Stage, Begun, dsDisk, dsProcesses, dsAgentState, DsExit, FreshOK, WriteOK,
      Present
<1>6. \A x \in DsJobs : WorkerOK(x)'
  BY SessionFacts
  DEF Inv, Stage, dsDisk, dsProcesses, dsAgentState, DsExit, WorkerOK, WriteOK
<1>7. \A x \in DsJobs : LaunchOK(x)'
  BY SessionFacts
  DEF Stage, Launching, dsDisk, dsProcesses, dsAgentState, DsExit, LaunchOK, WriteOK
<1>8. \A x \in DsJobs : LockOK(x)'
  BY SessionFacts DEF Stage, dsDisk, dsProcesses, dsAgentState, DsExit, LockOK, Present
<1>9. \A x \in DsJobs : OperationOK(x)'
  BY SessionFacts
  DEF Stage, Launching, dsDisk, dsProcesses, dsAgentState, DsExit, OperationOK,
      SameOperation, WriteOK
<1>10. \A x \in DsJobs : ActiveOK(x)'
  BY SessionFacts
  DEF Inv, Stage, Launching, Alive, Active, dsDisk, dsProcesses, dsAgentState, DsExit,
      ActiveOK, WorkerOK, WriteOK
<1> QED  BY <1>1, <1>2, <1>3, <1>4, <1>5, <1>6, <1>7, <1>8, <1>9, <1>10 DEF Inv

LEMMA StartInv == ASSUME Inv, DsStart PROVE Inv'
<1>1. DsTypeOK'
  BY SessionFacts DEF Inv, DsTypeOK, Stage, dsDisk, dsProcesses, dsAgentState, DsStart
<1>2. AgentOK'
  BY SessionFacts DEF Inv, Stage, Alive, dsDisk, dsProcesses, dsAgentState, DsStart, AgentOK
<1>3. OneActive'
  BY SessionFacts
  DEF Inv, Stage, Active, dsDisk, dsProcesses, dsAgentState, DsStart, OneActive, Excludes,
      SameOperation
<1>4. \A v \in dsWrites' : WriteOK(v)'
  BY SessionFacts DEF Inv, Stage, Alive, dsDisk, dsProcesses, dsAgentState, DsStart, WriteOK
<1>5. \A x \in DsJobs : FreshOK(x)'
  BY SessionFacts
  DEF Inv, Stage, Begun, dsDisk, dsProcesses, dsAgentState, DsStart, FreshOK, WriteOK,
      Present
<1>6. \A x \in DsJobs : WorkerOK(x)'
  BY SessionFacts
  DEF Inv, Stage, dsDisk, dsProcesses, dsAgentState, DsStart, WorkerOK, WriteOK
<1>7. \A x \in DsJobs : LaunchOK(x)'
  BY SessionFacts
  DEF Inv, Stage, Launching, Alive, dsDisk, dsProcesses, dsAgentState, DsStart, LaunchOK,
      WriteOK
<1>8. \A x \in DsJobs : LockOK(x)'
  BY SessionFacts
  DEF Inv, Stage, dsDisk, dsProcesses, dsAgentState, DsStart, LockOK, Present
<1>9. \A x \in DsJobs : OperationOK(x)'
  BY SessionFacts
  DEF Inv, Stage, Launching, dsDisk, dsProcesses, dsAgentState, DsStart, OperationOK,
      SameOperation, WriteOK, Present
<1>10. \A x \in DsJobs : ActiveOK(x)'
  BY DsAssumption, SessionFacts
  DEF Inv, Stage, Alive, Active, dsDisk, dsProcesses, dsAgentState, DsStart, ActiveOK,
      WorkerOK, WriteOK
<1> QED  BY <1>1, <1>2, <1>3, <1>4, <1>5, <1>6, <1>7, <1>8, <1>9, <1>10 DEF Inv

LEMMA ServeInv == ASSUME Inv, DsServe PROVE Inv'
<1>1. DsTypeOK'
  BY SessionFacts
  DEF Inv, DsTypeOK, Stage, dsDisk, dsProcesses, dsAgentState, DsServe, DsSessions, Present
<1>2. AgentOK'
  BY SessionFacts DEF Stage, Alive, dsDisk, dsProcesses, dsAgentState, DsServe, AgentOK
<1>3. OneActive'
  BY SessionFacts
  DEF Inv, Stage, Active, dsDisk, dsProcesses, dsAgentState, DsServe, OneActive, Excludes,
      SameOperation
<1>4. \A v \in dsWrites' : WriteOK(v)'
  BY SessionFacts DEF Inv, Stage, Alive, dsDisk, dsProcesses, dsAgentState, DsServe, WriteOK
<1>5. \A x \in DsJobs : FreshOK(x)'
  BY SessionFacts
  DEF Inv, Stage, Begun, dsDisk, dsProcesses, dsAgentState, DsServe, FreshOK, WriteOK,
      Present
<1>6. \A x \in DsJobs : WorkerOK(x)'
  BY SessionFacts
  DEF Inv, Stage, dsDisk, dsProcesses, dsAgentState, DsServe, WorkerOK, WriteOK
<1>7. \A x \in DsJobs : LaunchOK(x)'
  BY SessionFacts
  DEF Inv, Stage, Alive, dsDisk, dsProcesses, dsAgentState, DsServe, LaunchOK, WriteOK,
      Present
<1>8. \A x \in DsJobs : LockOK(x)'
  BY SessionFacts
  DEF Inv, Stage, dsDisk, dsProcesses, dsAgentState, DsServe, LockOK, Present
<1>9. \A x \in DsJobs : OperationOK(x)'
  BY SessionFacts
  DEF Inv, Stage, Launching, dsDisk, dsProcesses, dsAgentState, DsServe, OperationOK,
      SameOperation, WriteOK, Present
<1>10. \A x \in DsJobs : ActiveOK(x)'
  BY SessionFacts
  DEF Inv, DsTypeOK, Stage, Active, dsDisk, dsProcesses, dsAgentState, DsServe, ActiveOK,
      WorkerOK, WriteOK, DsSessions, Present
<1> QED  BY <1>1, <1>2, <1>3, <1>4, <1>5, <1>6, <1>7, <1>8, <1>9, <1>10 DEF Inv

-----------------------------------------------------------------------------
(* The theorem                                                             *)

LEMMA StepInv == Inv /\ [DsNext]_dsVars => Inv'
<1> SUFFICES ASSUME Inv, [DsNext]_dsVars PROVE Inv'  OBVIOUS
<1>1. CASE UNCHANGED dsVars
  BY <1>1
  DEF dsVars, dsAgentState, dsDisk, dsProcesses, Inv, DsTypeOK, AgentOK, OneActive, Active,
      Excludes, WriteOK, FreshOK, WorkerOK, LaunchOK, LockOK, OperationOK, ActiveOK, Begun,
      Alive, Stage, Launching, SameOperation, Present
<1>2. ASSUME NEW j \in DsJobs, DsProgress(j) PROVE Inv'
  BY <1>2, LockInv, SpawnInv, RegisteredInv, LaunchFailsInv, TickFindsInv, TickSeesExitInv,
     CompleteInv, FinishInv, WorkerStartsInv, WorkerRegistersInv, CommandEndsInv, ResultInv,
     RemovedInv
  DEF DsProgress, DsTick, DsDeadline
<1>3. ASSUME NEW j \in DsJobs,
             \/ DsAdmit(j) \/ DsFilesFail(j) \/ DsLaunchUnsaved(j) \/ DsExits(j)
             \/ DsWorkerDies(j) \/ DsSave(j) \/ DsKill(j) \/ DsEvict(j) \/ DsRestore(j)
      PROVE  Inv'
  BY <1>3, AdmitInv, FilesFailInv, LaunchUnsavedInv, CommandEndsInv, WorkerDiesInv,
     SaveInv, KillInv, EvictInv, RestoreInv
  DEF DsExits
<1> QED
  BY <1>1, <1>2, <1>3, WrittenInv, ExitInv, StartInv, ServeInv DEF DsNext

\* At the start nothing runs, is locked or on the disk.
LEMMA InitInv == DsInit => Inv
  BY DsAssumption
  DEF DsInit, Inv, DsTypeOK, AgentOK, OneActive, Active, WriteOK, FreshOK, WorkerOK,
      LaunchOK, LockOK, OperationOK, ActiveOK, Stage, Launching, Present

\* For every set of jobs, and however often the agent ends and workers die: the commands of
\* one operation or of one lock group run one at a time, but for a launch that was given up
\* and a command whose worker died, so that the agent made its result up
\* (startProcess, restoreDurableSessions, finalizeSession, syncDurableSession).
THEOREM OneAtATime == DsSpec => []DsOneProcess
<1>1. Inv => DsOneProcess
  BY DEF Inv, DsTypeOK, OneActive, Active, DsOneProcess
<1> QED  BY <1>1, InitInv, StepInv, PTL DEF DsSpec

\* For every set of jobs: jobs, snapshots, workers and locks keep their types, however
\* often the agent ends (startProcess, runDurableWorker, restoreDurableSessions).
THEOREM WellTyped == DsSpec => []DsTypeOK
<1>1. Inv => DsTypeOK
  BY DEF Inv
<1> QED  BY <1>1, InitInv, StepInv, PTL DEF DsSpec

=============================================================================
