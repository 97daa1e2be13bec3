------------------------ MODULE RuntimeSupervisor --------------------------
(***************************************************************************)
(* The desktop's supervisor of one local service (MCP or Actions) of one   *)
(* workspace: its entry, the listener tasks it spawned and their port, and *)
(* the start, stop and restart commands that the user interface may run at *)
(* the same time.  start, restart, refresh, begin_stop and finish_stop run *)
(* under the supervisor's mutex; a stop lets go of it while it waits for   *)
(* the listener, a restart does not.                                       *)
(*                                                                         *)
(* A listener is "serving"; it is "told" to stop when its oneshot is sent  *)
(* or dropped; then it lets go of the port and is "draining" until its     *)
(* last connection ends.  An aborted task lets go of the port when it is   *)
(* dropped.  Tunnels, secrets and the profile are left out, but a step     *)
(* that needs them may fail.                                               *)
(***************************************************************************)
EXTENDS Integers, FiniteSets

CONSTANTS RtCommands, RtNobody

ASSUME RtAssumption == IsFiniteSet(RtCommands) /\ RtNobody \notin RtCommands

RtOps == {"start", "stop", "restart"}

VARIABLES
  rtOp,       \* the operation of each command
  rtPc,       \* where it is
  rtHandle,   \* the listener a stop or restart waits for; a listener is named
              \* after the command that started it
  rtPhase,    \* the entry's phase, "none" without an entry
  rtTask,     \* the listener whose shutdown and handle the entry holds
  rtMissing,  \* missing_port_checks, counted no further than the three it is compared with
  rtLock,     \* the restart that holds the mutex
  rtListener, \* rtListener[c]: the task c spawned
  rtOther,    \* another program holds the port
  rtEnabled,  \* what is persisted
  rtUnsaved   \* a save has failed

rtEntry == <<rtPhase, rtTask, rtMissing>>
rtVars == <<rtOp, rtPc, rtHandle, rtEntry, rtLock, rtListener, rtOther, rtEnabled, rtUnsaved>>

RtTypeOK ==
  /\ rtOp \in [RtCommands -> RtOps]
  /\ rtPc \in [RtCommands -> {"new", "go", "persist", "wait", "finish", "refresh", "end"}]
  /\ rtHandle \in [RtCommands -> RtCommands \cup {RtNobody}]
  /\ rtPhase \in {"none", "starting", "running", "stopping", "error"}
  /\ rtTask \in RtCommands \cup {RtNobody} /\ rtMissing \in 0 .. 3
  /\ rtLock \in RtCommands \cup {RtNobody}
  /\ rtListener \in [RtCommands -> {"unused", "serving", "told", "aborted", "draining", "ended"}]
  /\ rtOther \in BOOLEAN /\ rtEnabled \in BOOLEAN /\ rtUnsaved \in BOOLEAN

RtInit ==
  /\ rtOp \in [RtCommands -> RtOps]
  /\ rtPc = [c \in RtCommands |-> "new"]
  /\ rtHandle = [c \in RtCommands |-> RtNobody]
  /\ rtPhase = "none" /\ rtTask = RtNobody /\ rtMissing = 0
  /\ rtLock = RtNobody
  /\ rtListener = [c \in RtCommands |-> "unused"]
  /\ rtOther = FALSE /\ rtEnabled = FALSE /\ rtUnsaved = FALSE

RtBound == {c \in RtCommands : rtListener[c] \in {"serving", "told", "aborted"}}
RtPortBusy == rtOther \/ RtBound # {}
RtFree == rtLock = RtNobody

RtGo(c, pc) == rtPc' = [rtPc EXCEPT ![c] = pc]
\* Dropping or sending the oneshot tells a serving listener to stop.
RtTell(L, t) == IF t = RtNobody \/ L[t] # "serving" THEN L ELSE [L EXCEPT ![t] = "told"]
RtAbort(L, t) ==
  IF t = RtNobody THEN L
  ELSE [L EXCEPT ![t] = IF @ \in {"serving", "told"} THEN "aborted" ELSE "ended"]

\* The command's operation up to its first lock; a start first looks at the port.
RtBegin(c) ==
  /\ rtPc[c] = "new"
  /\ RtGo(c, IF rtOp[c] = "stop" THEN "persist" ELSE "go")
  /\ UNCHANGED <<rtOp, rtHandle, rtEntry, rtLock, rtListener, rtOther, rtEnabled, rtUnsaved>>

\* ensure_port_available: the port stays busy.
RtPortUnavailable(c) ==
  /\ rtOp[c] = "start" /\ rtPc[c] = "go" /\ RtPortBusy
  /\ RtGo(c, "end")
  /\ UNCHANGED <<rtOp, rtHandle, rtEntry, rtLock, rtListener, rtOther, rtEnabled, rtUnsaved>>

-----------------------------------------------------------------------------
(* start, under the mutex                                                  *)

RtEnter(phase, task) == rtPhase' = phase /\ rtTask' = task /\ rtMissing' = 0

\* The entry that start inserts or leaves, given the phase it found: ok says
\* whether start returned Ok, which it also does when the listener did not start.
\* validate_service_auth_exposure may fail before anything else happens.
RtStart(c, found, L, ok) ==
  \/ /\ ~ ok /\ rtListener' = L
     /\ IF found = rtPhase THEN UNCHANGED rtEntry ELSE RtEnter(found, RtNobody)
  \/ /\ found \in {"running", "starting"}
     /\ ok /\ rtListener' = L /\ UNCHANGED rtEntry
  \/ /\ found = "stopping"
     /\ ~ ok /\ rtListener' = L /\ UNCHANGED rtEntry
  \/ /\ found \in {"none", "error"}
     /\ \/ ~ ok /\ RtEnter("starting", RtNobody) /\ rtListener' = L  \* the port or a secret is unreadable
        \/ ~ ok /\ RtPortBusy /\ RtEnter("none", RtNobody) /\ rtListener' = L
        \/ ok /\ RtEnter("error", RtNobody) /\ rtListener' = L        \* spawn_listener failed
        \/ /\ ok /\ ~ RtPortBusy
           /\ RtEnter("running", c)
           /\ rtListener' = [L EXCEPT ![c] = "serving"]

RtDoStart(c) ==
  /\ rtOp[c] = "start" /\ rtPc[c] = "go" /\ RtFree
  /\ \E ok \in BOOLEAN :
       /\ RtStart(c, rtPhase, rtListener, ok)
       /\ RtGo(c, IF ok THEN "persist" ELSE "end")
  /\ UNCHANGED <<rtOp, rtHandle, rtLock, rtOther, rtEnabled, rtUnsaved>>

RtAfterPersist(c) ==
  IF rtOp[c] = "start" THEN "refresh" ELSE IF rtOp[c] = "stop" THEN "go" ELSE "end"

\* persist_mcp_runtime_enabled; a save that fails ends the command.
RtPersist(c) ==
  /\ rtPc[c] = "persist"
  /\ \/ /\ rtEnabled' = (rtOp[c] # "stop")
        /\ RtGo(c, RtAfterPersist(c))
        /\ UNCHANGED rtUnsaved
     \/ /\ rtUnsaved' = TRUE
        /\ RtGo(c, "end")
        /\ UNCHANGED rtEnabled
  /\ UNCHANGED <<rtOp, rtHandle, rtEntry, rtLock, rtListener, rtOther>>

-----------------------------------------------------------------------------
(* stop and restart                                                        *)

\* begin_stop; a restart keeps the mutex.
RtBeginStop(c) ==
  /\ rtOp[c] \in {"stop", "restart"} /\ rtPc[c] = "go" /\ RtFree
  /\ rtPhase' = IF rtPhase = "none" THEN "none" ELSE "stopping"
  /\ rtTask' = RtNobody
  /\ rtHandle' = [rtHandle EXCEPT ![c] = rtTask]
  /\ rtListener' = RtTell(rtListener, rtTask)
  /\ rtLock' = IF rtOp[c] = "restart" THEN c ELSE rtLock
  /\ RtGo(c, "wait")
  /\ UNCHANGED <<rtOp, rtMissing, rtOther, rtEnabled, rtUnsaved>>

\* Mutated form of RtAwait: the listener is waited for without a limit.
RtAwaitForever(c) ==
  /\ rtPc[c] = "wait"
  /\ rtHandle[c] # RtNobody => rtListener[rtHandle[c]] = "ended"
  /\ RtGo(c, "finish")
  /\ UNCHANGED <<rtOp, rtHandle, rtEntry, rtLock, rtListener, rtOther, rtEnabled, rtUnsaved>>

\* await_listener_shutdown: the task ended or is aborted after 3 seconds; the
\* blocking form looks at the port instead.  The wait for the port is bounded too.
RtAwait(c) ==
  LET h == rtHandle[c] IN
  /\ rtPc[c] = "wait"
  /\ \/ /\ h # RtNobody => (rtListener[h] = "ended" \/ (rtOp[c] = "restart" /\ ~ RtPortBusy))
        /\ UNCHANGED rtListener
     \/ /\ h # RtNobody /\ (rtOp[c] = "restart" => RtPortBusy)
        /\ rtListener' = RtAbort(rtListener, h)
  /\ RtGo(c, "finish")
  /\ UNCHANGED <<rtOp, rtHandle, rtEntry, rtLock, rtOther, rtEnabled, rtUnsaved>>

\* finish_stop removes whatever entry there is, with its oneshot.
RtFinishStop(c) ==
  /\ rtOp[c] = "stop" /\ rtPc[c] = "finish" /\ RtFree
  /\ RtEnter("none", RtNobody)
  /\ rtListener' = RtTell(rtListener, rtTask)
  /\ RtGo(c, "refresh")
  /\ UNCHANGED <<rtOp, rtHandle, rtLock, rtOther, rtEnabled, rtUnsaved>>

\* finish_stop and start, which finds no entry.
RtRestart(c) ==
  /\ rtOp[c] = "restart" /\ rtPc[c] = "finish" /\ rtLock = c
  /\ \E ok \in BOOLEAN :
       /\ RtStart(c, "none", RtTell(rtListener, rtTask), ok)
       /\ RtGo(c, IF ok THEN "persist" ELSE "end")
  /\ rtLock' = RtNobody
  /\ UNCHANGED <<rtOp, rtHandle, rtOther, rtEnabled, rtUnsaved>>

-----------------------------------------------------------------------------
(* refresh and the listeners                                               *)

\* Mutated form of RtRefresh: the listener that was given up is left alone.
RtRefreshLeaves ==
  \E listening \in {FALSE, RtPortBusy} :
    /\ RtFree
    /\ rtPhase = "running"
    /\ rtMissing' = IF listening THEN 0 ELSE rtMissing + 1
    /\ rtPhase' = IF rtMissing' = 3 THEN "error" ELSE "running"
    /\ UNCHANGED <<rtTask, rtListener>>

\* A check of the port may miss a listener that is there.  The third miss in a
\* row, once the listener is old enough, drops it.
RtRefresh ==
  \E listening \in {FALSE, RtPortBusy}, old \in BOOLEAN :
    /\ RtFree
    /\ rtPhase = "running"
    /\ LET missing == IF listening THEN 0 ELSE IF rtMissing = 3 THEN 3 ELSE rtMissing + 1
           failed == missing = 3 /\ old
       IN /\ rtMissing' = missing
          /\ rtPhase' = IF failed THEN "error" ELSE "running"
          /\ rtTask' = IF failed THEN RtNobody ELSE rtTask
          /\ rtListener' = IF failed THEN RtAbort(rtListener, rtTask) ELSE rtListener

\* mcp_runtime_status, which the user interface polls.
RtStatus ==
  /\ RtRefresh
  /\ UNCHANGED <<rtOp, rtPc, rtHandle, rtLock, rtOther, rtEnabled, rtUnsaved>>

\* The end of a start refreshes too, unless it cannot look at the port or the entry does
\* not run; that of a stop only reads.
RtEnd(c) ==
  /\ rtPc[c] = "refresh"
  /\ RtGo(c, "end")
  /\ \/ rtOp[c] = "start" /\ RtRefresh
     \/ RtFree /\ UNCHANGED <<rtEntry, rtListener>>
  /\ UNCHANGED <<rtOp, rtHandle, rtLock, rtOther, rtEnabled, rtUnsaved>>

RtMove(c, from, to) ==
  /\ rtListener[c] = from
  /\ rtListener' = [rtListener EXCEPT ![c] = to]
  /\ UNCHANGED <<rtOp, rtPc, rtHandle, rtEntry, rtLock, rtOther, rtEnabled, rtUnsaved>>

RtUnbind(c) == RtMove(c, "told", "draining") \/ RtMove(c, "aborted", "ended")
RtDrain(c) == RtMove(c, "draining", "ended")
RtDies(c) == RtMove(c, "serving", "ended")

\* Another program takes the port or lets go of it.
RtOtherProgram ==
  /\ RtBound = {}
  /\ rtOther' = ~ rtOther
  /\ UNCHANGED <<rtOp, rtPc, rtHandle, rtEntry, rtLock, rtListener, rtEnabled, rtUnsaved>>

RtStep(c) ==
  \/ RtPortUnavailable(c) \/ RtDoStart(c) \/ RtPersist(c) \/ RtBeginStop(c)
  \/ RtAwait(c) \/ RtFinishStop(c) \/ RtRestart(c) \/ RtEnd(c)

RtNext ==
  \/ \E c \in RtCommands : RtBegin(c) \/ RtStep(c) \/ RtUnbind(c) \/ RtDrain(c) \/ RtDies(c)
  \/ RtStatus \/ RtOtherProgram

\* A command that began runs and its timers fire, and a task that was told to stop lets go of
\* the port; its connections may last for ever.
RtFairness == \A c \in RtCommands : WF_rtVars(RtStep(c)) /\ WF_rtVars(RtUnbind(c))

RtSpec == RtInit /\ [][RtNext]_rtVars

-----------------------------------------------------------------------------
(* Properties                                                              *)

\* When all commands have ended and the service is recorded as disabled, no
\* listener serves, however starts, stops and restarts overlapped (unless a save
\* failed): a stop records its intent before it acts, the others after.
RtDisabledIsQuiet ==
  (\A c \in RtCommands : rtPc[c] \in {"new", "end"}) /\ ~ rtEnabled /\ ~ rtUnsaved
    => \A c \in RtCommands : rtListener[c] # "serving"

\* No listener serves without the running entry that can stop it.
RtNoOrphan == \A c \in RtCommands : rtListener[c] = "serving" => rtPhase = "running" /\ rtTask = c

\* A listener that serves is recorded: as running, and in the end as enabled.
RtServingIsRecorded == RtNoOrphan /\ RtDisabledIsQuiet

\* A stop or restart that waits for its listener ends, although a connection keeps
\* the listener's task alive.
RtStopEnds == <>[](\A c \in RtCommands : rtPc[c] \notin {"wait", "finish"})
=============================================================================
