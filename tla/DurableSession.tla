--------------------------- MODULE DurableSession ---------------------------
(***************************************************************************)
(* Managed jobs of the node agent: commands that outlive the agent.  A     *)
(* detached worker process runs the command and leaves result.json in the  *)
(* session's directory; the agent keeps session.json there, watches the    *)
(* worker with a monitor, and restores its sessions when it starts again.  *)
(*                                                                         *)
(* A job is a call of exec_command with job_timeout_ms and the session it  *)
(* may create.  Every call names an operation_id, and all of them or none  *)
(* name the same lock group.  The agent has one thread: a step ends at an  *)
(* await.  Snapshots are written without any order between them, and each  *)
(* may fail; reads do not.  Output, exit codes and reasons are left out, as  *)
(* is the limit on active sessions.                                        *)
(***************************************************************************)
EXTENDS Integers

CONSTANTS
  DsJobs,      \* the calls, and the sessions they may create
  DsNobody,    \* no job, and no file
  DsMaxExits   \* bound on the ends of the agent

DsSessions ==
  [stage : {"launching", "watched", "exited", "unwatched", "found", "ending", "final"},
   dir : BOOLEAN]

ASSUME DsAssumption ==
  DsNobody \notin DsJobs \cup {"open", "final"} \cup DsSessions /\ DsMaxExits \in Nat

VARIABLES
  dsOp,        \* dsOp[j]: the operation_id of a call
  dsGrouped,   \* the calls name one lock group
  dsAgent,     \* "up", "down" or "restoring"
  dsExits,     \* how often it went down
  dsTodo,      \* sessions on disk that a start has yet to restore
  dsCall,      \* dsCall[j]: where startProcess is
  dsSession,   \* runtime.sessions: stage of a session, and whether it has a directory
  dsHolder,    \* who holds the lock of the group (KeyedMutex)
  dsWrites,    \* snapshots between persistDurableSession and their rename
  dsRemoving,  \* directories that removeDurableSessionArtifacts is removing
  dsDir,       \* jobs whose directory exists
  dsSnapshot,  \* session.json
  dsRuntime,   \* jobs with a runtime.json that names the process
  dsResult,    \* jobs with a result.json
  dsWorker,    \* dsWorker[j]: where the worker process is
  dsRunning,   \* jobs whose command runs
  dsGivenUp    \* launches that failed or were cut off after the spawn, and jobs whose result the
               \* agent made up while their command ran without a worker

dsDisk == <<dsDir, dsSnapshot, dsRuntime, dsResult>>
dsProcesses == <<dsWorker, dsRunning>>
dsAgentState == <<dsOp, dsGrouped, dsAgent, dsExits, dsTodo>>
dsVars == <<dsAgentState, dsCall, dsSession, dsHolder, dsWrites, dsRemoving, dsDisk,
            dsProcesses, dsGivenUp>>

Present(j) == dsSession[j] # DsNobody
Stage(j, stages) == Present(j) /\ dsSession[j].stage \in stages
Finalized(j) == Stage(j, {"ending", "final"})
Launching(j) == dsCall[j] \in {"locking", "files", "spawned", "saving"}  \* holds the operation's lock
Alive == dsAgent = "up"

SnapshotOf(j) == IF Finalized(j) THEN "final" ELSE "open"
Saving(j) == \E w \in dsWrites : w.job = j /\ w.by = "save"

DsTypeOK ==
  /\ dsGrouped \in BOOLEAN
  /\ dsAgent \in {"up", "down", "restoring"}
  /\ dsExits \in 0 .. DsMaxExits /\ dsTodo \subseteq DsJobs
  /\ dsCall \in [DsJobs -> {"none", "locking", "files", "spawned", "saving", "told", "attached",
                            "failed", "cut"}]
  /\ dsSession \in [DsJobs -> DsSessions \cup {DsNobody}]
  /\ dsHolder \in DsJobs \cup {DsNobody}
  /\ dsWrites \subseteq [job : DsJobs, by : {"launch", "save", "final"}, snapshot : {"open", "final"}]
  /\ dsRemoving \cup dsDir \cup dsRuntime \cup dsResult \cup dsRunning \cup dsGivenUp \subseteq DsJobs
  /\ dsSnapshot \in [DsJobs -> {"open", "final", DsNobody}]
  /\ dsWorker \in [DsJobs -> {"none", "started", "launched", "watching", "closing", "lost", "gone"}]

\* An agent with an empty data directory; who names what is chosen beforehand.
DsInit ==
  /\ dsGrouped \in BOOLEAN
  /\ dsAgent = "up" /\ dsExits = 0 /\ dsTodo = {}
  /\ dsCall = [j \in DsJobs |-> "none"]
  /\ dsSession = [j \in DsJobs |-> DsNobody]
  /\ dsHolder = DsNobody
  /\ dsWrites = {} /\ dsRemoving = {}
  /\ dsDir = {} /\ dsRuntime = {} /\ dsResult = {}
  /\ dsSnapshot = [j \in DsJobs |-> DsNobody]
  /\ dsWorker = [j \in DsJobs |-> "none"]
  /\ dsRunning = {} /\ dsGivenUp = {}

-----------------------------------------------------------------------------
(* startProcess and launchDurableWorker                                    *)

DsGoTo(j, place) == dsCall' = [dsCall EXCEPT ![j] = place]
To(j, stage) == dsSession' = [dsSession EXCEPT ![j].stage = stage]
Unlock(j) == dsHolder' = IF dsHolder = j THEN DsNobody ELSE dsHolder
Persist(j, by) ==
  dsWrites' = IF dsSession[j].dir
                THEN dsWrites \cup {[job |-> j, by |-> by, snapshot |-> SnapshotOf(j)]}
                ELSE dsWrites

SameOperation(j) == {k \in DsJobs \ {j} : dsOp[k] = dsOp[j]}

\* With the operation's lock: an existing session of the operation is attached to.
DsAdmit(j) ==
  /\ Alive /\ dsCall[j] = "none"
  /\ \A k \in SameOperation(j) : ~ Launching(k)
  /\ DsGoTo(j, IF \E k \in SameOperation(j) : Present(k) THEN "attached" ELSE "locking")
  /\ UNCHANGED <<dsAgentState, dsSession, dsHolder, dsWrites, dsRemoving, dsDisk, dsProcesses,
                 dsGivenUp>>

\* The group's lock is acquired and the session registered.
DsLock(j) ==
  /\ Alive /\ dsCall[j] = "locking"
  /\ dsGrouped => dsHolder = DsNobody
  /\ dsHolder' = IF dsGrouped THEN j ELSE dsHolder
  /\ dsSession' = [dsSession EXCEPT ![j] = [stage |-> "launching", dir |-> FALSE]]
  /\ DsGoTo(j, "files")
  /\ UNCHANGED <<dsAgentState, dsWrites, dsRemoving, dsDisk, dsProcesses, dsGivenUp>>

\* removeProcessSession: the directory is removed in the background.
Remove(j) ==
  /\ dsSession' = [dsSession EXCEPT ![j] = DsNobody]
  /\ Unlock(j)
  /\ dsRemoving' = IF dsSession[j].dir THEN dsRemoving \cup {j} ELSE dsRemoving

\* Directory, logs and manifest are there, and the worker is spawned.
DsSpawn(j) ==
  /\ Alive /\ dsCall[j] = "files"
  /\ dsDir' = dsDir \cup {j}
  /\ dsWorker' = [dsWorker EXCEPT ![j] = "started"]
  /\ dsSession' = [dsSession EXCEPT ![j].dir = TRUE]
  /\ DsGoTo(j, "spawned")
  /\ UNCHANGED <<dsAgentState, dsHolder, dsWrites, dsRemoving, dsSnapshot, dsRuntime, dsResult,
                 dsRunning, dsGivenUp>>

\* One of them cannot be written.
DsFilesFail(j) ==
  /\ Alive /\ dsCall[j] = "files"
  /\ Remove(j)
  /\ DsGoTo(j, "failed")
  /\ UNCHANGED <<dsAgentState, dsWrites, dsDisk, dsProcesses, dsGivenUp>>

\* The poll finds the process in runtime.json and saves the session.
DsRegistered(j) ==
  /\ Alive /\ dsCall[j] = "spawned" /\ j \in dsRuntime
  /\ Persist(j, "launch")
  /\ DsGoTo(j, "saving")
  /\ UNCHANGED <<dsAgentState, dsSession, dsHolder, dsRemoving, dsDisk, dsProcesses, dsGivenUp>>

\* Two seconds have passed, the worker is gone or it has left an error.
DsLaunchFails(j) ==
  /\ Alive /\ dsCall[j] = "spawned"
  /\ Remove(j)
  /\ DsGoTo(j, "failed")
  /\ dsGivenUp' = dsGivenUp \cup {j}
  /\ UNCHANGED <<dsAgentState, dsWrites, dsDisk, dsProcesses>>

-----------------------------------------------------------------------------
(* Files                                                                   *)

\* A snapshot is renamed into place; a launch returns and its session is watched.
DsWritten(w) ==
  /\ w.job \in dsDir
  /\ dsWrites' = dsWrites \ {w}
  /\ dsSnapshot' = [dsSnapshot EXCEPT ![w.job] = w.snapshot]
  /\ IF w.by = "launch" THEN DsGoTo(w.job, "told") /\ To(w.job, "watched")
                        ELSE UNCHANGED <<dsCall, dsSession>>
  /\ UNCHANGED <<dsAgentState, dsHolder, dsRemoving, dsDir, dsRuntime, dsResult, dsProcesses,
                 dsGivenUp>>

\* The snapshot of a launch cannot be written.  Nobody minds when another one cannot, or
\* has no directory any more: it is as one that is not renamed before the agent ends.
DsLaunchUnsaved(j) ==
  /\ \E w \in dsWrites : w.job = j /\ w.by = "launch" /\ dsWrites' = dsWrites \ {w}
  /\ Remove(j)
  /\ DsGoTo(j, "failed")
  /\ dsGivenUp' = dsGivenUp \cup {j}
  /\ UNCHANGED <<dsAgentState, dsDisk, dsProcesses>>

\* The directory is removed; a removal that fails is as one the agent's end cuts off.
DsRemoved(j) ==
  /\ j \in dsRemoving
  /\ dsRemoving' = dsRemoving \ {j}
  /\ dsDir' = dsDir \ {j} /\ dsRuntime' = dsRuntime \ {j} /\ dsResult' = dsResult \ {j}
  /\ dsSnapshot' = [dsSnapshot EXCEPT ![j] = DsNobody]
  /\ UNCHANGED <<dsAgentState, dsCall, dsSession, dsHolder, dsWrites, dsProcesses, dsGivenUp>>

-----------------------------------------------------------------------------
(* durableWorker                                                           *)

dsWorkerFrame == <<dsAgentState, dsCall, dsSession, dsHolder, dsWrites, dsRemoving, dsDir,
                 dsSnapshot, dsGivenUp>>
WorkerTo(j, place) == dsWorker' = [dsWorker EXCEPT ![j] = place]

\* The worker reads its manifest and starts the command, or finds no manifest, or the
\* command cannot be started.
DsWorkerStarts(j) ==
  /\ dsWorker[j] = "started"
  /\ \/ j \in dsDir /\ WorkerTo(j, "launched") /\ dsRunning' = dsRunning \cup {j}
     \/ j \in dsDir /\ WorkerTo(j, "closing") /\ UNCHANGED dsRunning
     \/ j \notin dsDir /\ WorkerTo(j, "gone") /\ UNCHANGED dsRunning
  /\ UNCHANGED <<dsWorkerFrame, dsRuntime, dsResult>>

\* runtime.json is written and the deadline set; when it cannot be written, an error may
\* be left as the result, and the command is on its own.
DsWorkerRegisters(j) ==
  /\ dsWorker[j] = "launched"
  /\ \/ /\ j \in dsDir /\ WorkerTo(j, "watching")
        /\ dsRuntime' = dsRuntime \cup {j}
        /\ UNCHANGED dsResult
     \/ /\ WorkerTo(j, "lost")
        /\ dsResult' \in {dsResult, dsResult \cup ({j} \cap dsDir)}
        /\ UNCHANGED dsRuntime
  /\ UNCHANGED <<dsWorkerFrame, dsRunning>>

DsCommandEnds(j) ==
  /\ dsRunning' = dsRunning \ {j}
  /\ UNCHANGED <<dsWorkerFrame, dsRuntime, dsResult, dsWorker>>

DsExits(j) == j \in dsRunning /\ DsCommandEnds(j)

\* The worker kills the command's process tree at the deadline of the job.
DsDeadline(j) == j \in dsRunning /\ dsWorker[j] = "watching" /\ DsCommandEnds(j)

\* The command has ended: result.json is written, or cannot be, and the worker exits.
DsResult(j) ==
  /\ dsWorker[j] \in {"watching", "closing", "lost"} /\ j \notin dsRunning
  /\ WorkerTo(j, "gone")
  /\ dsResult' \in IF dsWorker[j] = "lost" THEN {dsResult}
                                          ELSE {dsResult, dsResult \cup ({j} \cap dsDir)}
  /\ UNCHANGED <<dsWorkerFrame, dsRuntime, dsRunning>>

\* The worker is killed or crashes while its command runs, which is detached and goes on.
\* A worker without a command dies as one that cannot start it or write the result.
DsWorkerDies(j) ==
  /\ j \in dsRunning /\ dsWorker[j] # "gone"
  /\ WorkerTo(j, "gone")
  /\ UNCHANGED <<dsWorkerFrame, dsRuntime, dsResult, dsRunning>>

-----------------------------------------------------------------------------
(* The monitor, finalization and removal                                   *)

agentFrame == <<dsAgentState, dsCall, dsDisk, dsProcesses, dsGivenUp>>

Watched(j) == Alive /\ Stage(j, {"watched", "exited"})
Dead(j) == dsWorker[j] = "gone"

\* Mutated form of DsTickSeesExit: a worker without a result is waited for.
DsTickKeepsWaiting(j) ==
  /\ Watched(j) /\ Dead(j) /\ j \notin dsResult /\ dsSession[j].stage = "watched"
  /\ To(j, "exited")
  /\ UNCHANGED <<agentFrame, dsHolder, dsWrites, dsRemoving>>

\* The tick finds result.json and is the monitor's last one.
DsTickFinds(j) ==
  /\ Watched(j) /\ j \in dsResult
  /\ To(j, "found")
  /\ UNCHANGED <<agentFrame, dsHolder, dsWrites, dsRemoving>>

\* The worker is gone and left no result, not even when the file is read once more: after
\* a grace period the tick makes one up, whatever has become of the command.
DsTickSeesExit(j) ==
  /\ Watched(j) /\ Dead(j) /\ j \notin dsResult
  /\ \/ dsSession[j].stage = "watched" /\ To(j, "exited") /\ UNCHANGED dsGivenUp
     \/ /\ dsSession[j].stage = "exited" /\ To(j, "found")
        /\ dsGivenUp' = dsGivenUp \cup ({j} \cap dsRunning)
  /\ UNCHANGED <<dsAgentState, dsCall, dsHolder, dsWrites, dsRemoving, dsDisk, dsProcesses>>

\* completeDurableSession, as far as finalizeSession waits for the harness.
DsComplete(j) ==
  /\ Alive /\ Stage(j, {"found"})
  /\ To(j, "ending")
  /\ UNCHANGED <<agentFrame, dsHolder, dsWrites, dsRemoving>>

\* The rest of it: the lock is released before the snapshot is written.
DsFinish(j) ==
  /\ Alive /\ Stage(j, {"ending"})
  /\ To(j, "final")
  /\ Unlock(j)
  /\ Persist(j, "final")
  /\ UNCHANGED <<agentFrame, dsRemoving>>

\* A pid or output found by a tick, a caller that leaves (markSessionDetached) or the
\* agent's shutdown saves the session; one such write at a time is a bound.
DsSave(j) ==
  /\ Alive /\ Present(j) /\ ~ Finalized(j)
  /\ dsSession[j].dir /\ ~ Saving(j)
  /\ Persist(j, "save")
  /\ UNCHANGED <<agentFrame, dsSession, dsHolder, dsRemoving>>

\* kill_session: the session is saved, and the command signalled once its pid is known; it
\* may ignore the signal (DsSave alone).
DsKill(j) ==
  /\ Alive /\ Present(j) /\ ~ Finalized(j)
  /\ j \in dsRuntime \cap dsRunning /\ dsCall[j] # "spawned"
  /\ Persist(j, "save")
  /\ dsRunning' = dsRunning \ {j}
  /\ UNCHANGED <<dsAgentState, dsCall, dsSession, dsHolder, dsRemoving, dsDisk, dsWorker, dsGivenUp>>

\* kill_session of a finalized session, and pruneProcessSessions.
DsEvict(j) ==
  /\ Alive /\ Finalized(j)
  /\ Remove(j)
  /\ UNCHANGED <<agentFrame, dsWrites>>

-----------------------------------------------------------------------------
(* The agent stops and starts                                              *)

\* The agent ends, disposed of (disposeProcessSessions saves what is unfinished, DsSave)
\* or not: what was not renamed yet is lost, the workers go on.
DsExit ==
  /\ dsAgent # "down" /\ dsExits < DsMaxExits
  /\ dsAgent' = "down" /\ dsExits' = dsExits + 1 /\ dsTodo' = {}
  /\ dsCall' = [j \in DsJobs |-> IF Launching(j) THEN "cut" ELSE dsCall[j]]
  /\ dsGivenUp' = dsGivenUp \cup {j \in DsJobs : dsCall[j] \in {"spawned", "saving"}}
  /\ dsSession' = [j \in DsJobs |-> DsNobody]
  /\ dsHolder' = DsNobody /\ dsWrites' = {} /\ dsRemoving' = {}
  /\ UNCHANGED <<dsOp, dsGrouped, dsDisk, dsProcesses>>

\* restoreDurableSessions lists the directories.
DsStart ==
  /\ dsAgent = "down"
  /\ dsAgent' = "restoring"
  /\ dsTodo' = {j \in DsJobs : dsSnapshot[j] # DsNobody}
  /\ UNCHANGED <<dsOp, dsGrouped, dsExits, dsCall, dsSession, dsHolder, dsWrites, dsRemoving,
                 dsDisk, dsProcesses, dsGivenUp>>

Restored(j) ==
  dsSession' = [dsSession EXCEPT ![j] =
    [stage |-> IF dsSnapshot[j] = "final" THEN "final" ELSE "unwatched", dir |-> TRUE]]

restoreFrame == <<dsOp, dsGrouped, dsAgent, dsExits, dsCall, dsWrites, dsRemoving, dsDisk,
                  dsProcesses, dsGivenUp>>

\* Mutated form of DsRestore: the lock of the group is not taken again.
DsRestoreUnlocked(j) ==
  /\ dsAgent = "restoring" /\ j \in dsTodo
  /\ dsTodo' = dsTodo \ {j}
  /\ Restored(j)
  /\ UNCHANGED <<restoreFrame, dsHolder>>

\* A session is restored, one that is not finalized with the lock of its group.
DsRestore(j) ==
  /\ dsAgent = "restoring" /\ j \in dsTodo
  /\ LET locks == dsGrouped /\ dsSnapshot[j] # "final" IN
       /\ locks => dsHolder = DsNobody
       /\ dsHolder' = IF locks THEN j ELSE dsHolder
  /\ dsTodo' = dsTodo \ {j}
  /\ Restored(j)
  /\ UNCHANGED restoreFrame

\* restoreProcessSessions attaches the monitors, and the agent begins to serve.
DsServe ==
  /\ dsAgent = "restoring" /\ dsTodo = {}
  /\ dsAgent' = "up"
  /\ dsSession' = [j \in DsJobs |-> IF Stage(j, {"unwatched"})
                                      THEN [dsSession[j] EXCEPT !.stage = "watched"]
                                      ELSE dsSession[j]]
  /\ UNCHANGED <<dsOp, dsGrouped, dsExits, dsTodo, dsCall, dsHolder, dsWrites, dsRemoving, dsDisk,
                 dsProcesses, dsGivenUp>>

DsTick(j) == DsTickFinds(j) \/ DsTickSeesExit(j)

DsProgress(j) ==
  \/ DsLock(j) \/ DsSpawn(j) \/ DsRegistered(j) \/ DsLaunchFails(j)
  \/ DsTick(j) \/ DsComplete(j) \/ DsFinish(j)
  \/ DsWorkerStarts(j) \/ DsWorkerRegisters(j) \/ DsDeadline(j) \/ DsResult(j)
  \/ DsRemoved(j)

DsNext ==
  \/ \E j \in DsJobs : \/ DsAdmit(j) \/ DsProgress(j) \/ DsFilesFail(j) \/ DsLaunchUnsaved(j)
                       \/ DsExits(j) \/ DsWorkerDies(j)
                       \/ DsSave(j) \/ DsKill(j) \/ DsEvict(j) \/ DsRestore(j)
  \/ \E w \in dsWrites : DsWritten(w)
  \/ DsExit \/ DsStart \/ DsServe

DsSpec == DsInit /\ [][DsNext]_dsVars

\* Timers fire and processes run: launches, ticks, finalizations, workers and their
\* deadlines go on, and an agent that was started restores what it can.  Nothing is
\* assumed of commands, of callers, of writes, of workers' deaths, or of the agent's being
\* started again.  Each of these steps can be taken finitely often only, so that one
\* fairness is enough.
DsGoesOn == (\E j \in DsJobs : DsProgress(j) \/ DsRestore(j)) \/ DsServe

DsFairness == WF_dsVars(DsGoesOn)

DsFairSpec == DsSpec /\ DsFairness

-----------------------------------------------------------------------------
(* Properties                                                              *)

Excludes(j, k) == j # k /\ (dsGrouped \/ dsOp[j] = dsOp[k])

\* Whatever is started again, attached to, killed or restored, and whichever file cannot
\* be written: two commands of one operation or one lock group never run at the same
\* time, except one whose launch was given up after the spawn or whose worker died, so that
\* the agent made up its result (startProcess, restoreDurableSessions, finalizeSession,
\* syncDurableSession).
DsOneProcess ==
  \A j, k \in dsRunning : Excludes(j, k) => dsGivenUp \cap {j, k} # {}

\* A job the caller was told of does not stay unfinished while the agent is up, whether it
\* was started or restored by it: its worker ends it at the deadline, and the monitor
\* finds out, also when the worker could leave no result or died (syncDurableSession).
DsJobEnds ==
  <>[](\A j \in DsJobs : dsCall[j] = "told" /\ Present(j) /\ Alive => Finalized(j))

\* A restart brings a managed job back whose caller was told of it: the agent that
\* restores it goes on to serve (test/processLifecycle.test.mjs, "managed job survives
\* Agent restart and reattaches by session and operation id").
DsRestartServes ==
  \A j \in DsJobs : dsCall[j] = "told" /\ j \in dsTodo ~> dsAgent # "restoring"
=============================================================================
