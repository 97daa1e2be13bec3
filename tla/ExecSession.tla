---------------------------- MODULE ExecSession ----------------------------
(***************************************************************************)
(* Commands that the desktop's tools run: a call admits its operation,     *)
(* takes the lock of its resource and one of the active slots, starts a    *)
(* process as a retained session and returns, perhaps before the process   *)
(* has exited.  An exit waiter and a lifecycle monitor outlive the call.   *)
(* Other calls attach to the session or kill it; one that is dropped       *)
(* leaves the session detached and a timer to kill it.                     *)
(*                                                                         *)
(* A session is named after the call that starts it.  Output, stdin and    *)
(* sandboxes are left out, post-checks are part of the monitor's cleanup,  *)
(* and so is the record of managed jobs.  The process may exit whenever it *)
(* likes and may ignore a signal, but not a kill.                          *)
(***************************************************************************)
EXTENDS FiniteSets, Integers

CONSTANTS
  ExCalls, ExNobody,
  ExLimit   \* active_session_limit

ASSUME ExAssumption ==
  /\ ExLimit \in Nat \ {0} /\ ExNobody \notin ExCalls
  /\ {"waiter", "timer"} \cap (ExCalls \cup {ExNobody}) = {}

ExKinds == {"run", "other", "kill"}

VARIABLES
  exAuto,    \* operation ids are automatic: made of the command
  exKind,    \* what each call wants: to run one command or another, or to kill
  exPc, exFound,      \* where it is; the session it attaches to or kills
  exOpLock,  \* the holder of each operation's lock
  exResource,\* the holder of the lock of the resource "run" needs: a call, then its monitor
  exSlots,   \* who holds an active slot
  exIndex,   \* operation_index: the retained session of each operation
  exProc,    \* exProc[s]: the process of session s
  exExited,  \* has_exited: what the program knows of it
  exChild,   \* who holds the lock of the child
  exMonitor, exTimer, \* the lifecycle monitor and the detached timer
  exGen, exDetached,  \* attachment_generation, detached_generation
  exMark,    \* the generation that mark_detached took
  exFinal,   \* finalized
  exOps, exRecorded,  \* harness_operations, harness_operation_recorded
  exLog,     \* how often the end of each call's operation was logged
  exUnlogged \* the operations whose log failed

exPlan == <<exAuto, exKind>>
exCallVars == <<exPlan, exPc, exFound>>
exLocks == <<exOpLock, exResource, exSlots, exIndex>>
exProcess == <<exProc, exExited, exChild>>
exWatchers == <<exMonitor, exTimer>>
exAttachment == <<exGen, exDetached, exMark>>
exHarness == <<exOps, exRecorded, exLog, exUnlogged>>
exVars == <<exCallVars, exLocks, exProcess, exWatchers, exAttachment, exFinal, exHarness>>

\* The operation of a command: an id of the caller's is the same for both.
ExOperation(c) == IF exAuto THEN exKind[c] ELSE "run"

ExTypeOK ==
  /\ exAuto \in BOOLEAN /\ exKind \in [ExCalls -> ExKinds]
  /\ exPc \in [ExCalls -> {"new", "touch", "refresh", "resource", "slot", "start", "readers",
                           "wait", "detach", "kill", "killing", "evict", "track", "check",
                           "done", "end"}]
  /\ exFound \in [ExCalls -> ExCalls \cup {ExNobody}]
  /\ exOpLock \in [{"run", "other"} -> ExCalls \cup {ExNobody}]
  /\ exResource \in ExCalls \cup {ExNobody} /\ exSlots \subseteq ExCalls
  /\ exIndex \in [{"run", "other"} -> ExCalls \cup {ExNobody}]
  /\ exProc \in [ExCalls -> {"none", "running", "dying", "gone"}]
  /\ exExited \in [ExCalls -> BOOLEAN]
  /\ exChild \in [ExCalls -> ExCalls \cup {ExNobody, "waiter", "timer"}]
  /\ exMonitor \in [ExCalls -> {"none", "watch", "kill", "cleanup", "record", "done"}]
  /\ exTimer \in [ExCalls -> {"none", "armed", "kill", "off"}]
  /\ {exGen, exDetached, exMark} \subseteq [ExCalls -> Nat]
  /\ exFinal \in [ExCalls -> BOOLEAN]
  /\ exOps \in [ExCalls -> SUBSET ExCalls] /\ exRecorded \in [ExCalls -> SUBSET ExCalls]
  /\ exLog \in [ExCalls -> Nat] /\ exUnlogged \subseteq ExCalls

ExInit ==
  /\ exAuto \in BOOLEAN
  /\ exKind \in [ExCalls -> ExKinds]
  /\ exPc = [c \in ExCalls |-> "new"]
  /\ exFound = [c \in ExCalls |-> ExNobody]
  /\ exOpLock = [o \in {"run", "other"} |-> ExNobody]
  /\ exResource = ExNobody /\ exSlots = {}
  /\ exIndex = [o \in {"run", "other"} |-> ExNobody]
  /\ exProc = [s \in ExCalls |-> "none"]
  /\ exExited = [s \in ExCalls |-> FALSE]
  /\ exChild = [s \in ExCalls |-> ExNobody]
  /\ exMonitor = [s \in ExCalls |-> "none"]
  /\ exTimer = [s \in ExCalls |-> "none"]
  /\ exGen = [s \in ExCalls |-> 1]
  /\ exDetached = [s \in ExCalls |-> 0] /\ exMark = [s \in ExCalls |-> 0]
  /\ exFinal = [s \in ExCalls |-> FALSE]
  /\ exOps = [s \in ExCalls |-> {}]
  /\ exRecorded = [s \in ExCalls |-> {}]
  /\ exLog = [c \in ExCalls |-> 0] /\ exUnlogged = {}

ExGo(c, pc) == exPc' = [exPc EXCEPT ![c] = pc]
\* A call's guards when it ends or is dropped.
ExUnlocked(c) == [o \in {"run", "other"} |-> IF exOpLock[o] = c THEN ExNobody ELSE exOpLock[o]]
ExResourceFreed(c) == exResource' = IF exResource = c THEN ExNobody ELSE exResource
ExAlive(s) == exProc[s] \in {"running", "dying"}
ExWaited(s) == exMonitor[s] # "none"  \* exit_waiter_started

-----------------------------------------------------------------------------
(* A call: admission and start                                             *)

\* What admission does with the session it finds: an automatic operation that has
\* finished is done anew.
ExReuses(s) == ~ exAuto \/ ~ exFinal[s]

\* admit_operation, under the operation's lock; get_by_operation may first prune a
\* session that has been finalized for long enough.
ExAdmit(c) ==
  /\ exPc[c] = "new" /\ exKind[c] # "kill" /\ exOpLock[ExOperation(c)] = ExNobody
  /\ LET o == ExOperation(c) IN
       \E s \in {exIndex[o]} \cup (IF exIndex[o] # ExNobody /\ exFinal[exIndex[o]]
                                     THEN {ExNobody} ELSE {}) :
         \/ /\ s # ExNobody => ~ ExReuses(s)
            /\ exIndex' = [exIndex EXCEPT ![o] = ExNobody]
            /\ exOpLock' = [exOpLock EXCEPT ![o] = c]
            /\ ExGo(c, IF exKind[c] = "run" THEN "resource" ELSE "slot")
            /\ UNCHANGED <<exFound, exGen>>
         \/ /\ s # ExNobody /\ ExReuses(s) /\ exKind[s] = exKind[c]
            /\ exOpLock' = [exOpLock EXCEPT ![o] = c]
            /\ exGen' = [exGen EXCEPT ![s] = @ + 1]
            /\ exFound' = [exFound EXCEPT ![c] = s]
            /\ ExGo(c, "touch")
            /\ UNCHANGED exIndex
         \/ /\ s # ExNobody /\ ExReuses(s) /\ exKind[s] # exKind[c]  \* OPERATION_ID_CONFLICT
            /\ ExGo(c, "end")
            /\ UNCHANGED <<exIndex, exOpLock, exFound, exGen>>
  /\ UNCHANGED <<exPlan, exResource, exSlots, exProcess, exWatchers, exDetached,
                 exMark, exFinal, exHarness>>

\* The second half of touch_attachment.
ExTouch(c) ==
  /\ exPc[c] = "touch"
  /\ exDetached' = [exDetached EXCEPT ![exFound[c]] = 0]
  /\ ExGo(c, IF exKind[c] = "kill" THEN "kill" ELSE "refresh")
  /\ UNCHANGED <<exPlan, exFound, exLocks, exProcess, exWatchers, exGen, exMark,
                 exFinal, exHarness>>

\* refresh_status: without an exit waiter the call looks itself.
ExRefreshed(s) ==
  /\ ExWaited(s) \/ exChild[s] = ExNobody
  /\ exExited' = [exExited EXCEPT ![s] = @ \/ ~ (ExWaited(s) \/ ExAlive(s))]

\* The attached call answers with a snapshot; the log of a session that has not
\* finished is left to its end.
ExAnswer(c, s) ==
  IF exFinal[s]
    THEN ExGo(c, "done") /\ exLog' = [exLog EXCEPT ![c] = @ + 1]
    ELSE ExGo(c, "track") /\ UNCHANGED exLog

ExRefresh(c) ==
  /\ exPc[c] = "refresh"
  /\ ExRefreshed(exFound[c])
  /\ ExAnswer(c, exFound[c])
  /\ exOpLock' = ExUnlocked(c)
  /\ UNCHANGED <<exPlan, exFound, exResource, exSlots, exIndex, exProc, exChild,
                 exWatchers, exAttachment, exFinal, exOps, exRecorded, exUnlogged>>

ExTakeResource(c) ==
  /\ exPc[c] = "resource" /\ exResource = ExNobody
  /\ exResource' = c
  /\ ExGo(c, "slot")
  /\ UNCHANGED <<exPlan, exFound, exOpLock, exSlots, exIndex, exProcess, exWatchers,
                 exAttachment, exFinal, exHarness>>

ExTakeSlot(c) ==
  /\ exPc[c] = "slot" /\ Cardinality(exSlots) < ExLimit
  /\ exSlots' = exSlots \cup {c}
  /\ ExGo(c, "start")
  /\ UNCHANGED <<exPlan, exFound, exOpLock, exResource, exIndex, exProcess, exWatchers,
                 exAttachment, exFinal, exHarness>>

\* The process is started and its session inserted.
ExStart(c) ==
  /\ exPc[c] = "start"
  /\ exProc' = [exProc EXCEPT ![c] = "running"]
  /\ exIndex' = [exIndex EXCEPT ![ExOperation(c)] = c]
  /\ ExGo(c, "readers")
  /\ UNCHANGED <<exPlan, exFound, exOpLock, exResource, exSlots, exExited, exChild,
                 exWatchers, exAttachment, exFinal, exHarness>>

\* Once spawn_readers has had the child's lock: the exit waiter takes it, the monitor
\* takes over the resource, and the operation's lock is given back.
ExWatch(c) ==
  /\ exPc[c] = "readers" /\ exChild[c] = ExNobody
  /\ exChild' = [exChild EXCEPT ![c] = "waiter"]
  /\ exMonitor' = [exMonitor EXCEPT ![c] = "watch"]
  /\ exOpLock' = ExUnlocked(c)
  /\ ExGo(c, "wait")
  /\ UNCHANGED <<exPlan, exFound, exResource, exSlots, exIndex, exProc, exExited, exTimer,
                 exAttachment, exFinal, exHarness>>

\* It has waited long enough, or seen the end.
ExReturn(c) ==
  /\ exPc[c] = "wait"
  /\ exFound' = [exFound EXCEPT ![c] = c]
  /\ ExAnswer(c, c)
  /\ UNCHANGED <<exPlan, exLocks, exProcess, exWatchers, exAttachment, exFinal,
                 exOps, exRecorded, exUnlogged>>

-----------------------------------------------------------------------------
(* Calls that fail or are dropped                                          *)

\* No slot within a second, a process that does not start, a request that is dropped:
\* before there is a session nothing is left, for nothing waits between the start and
\* the session but on Windows, where a child that is dropped closes its job, which kills it.
ExFails(c) ==
  /\ exPc[c] \in {"resource", "slot", "start", "refresh", "kill", "killing", "evict"}
  /\ ExGo(c, "end")
  /\ exOpLock' = ExUnlocked(c)
  /\ ExResourceFreed(c)
  /\ exSlots' = IF exPc[c] = "start" THEN exSlots \ {c} ELSE exSlots
  /\ exChild' = [s \in ExCalls |-> IF exChild[s] = c THEN ExNobody ELSE exChild[s]]
  /\ UNCHANGED <<exPlan, exFound, exIndex, exProc, exExited, exWatchers, exAttachment,
                 exFinal, exHarness>>

\* Mutated form of ExDrop: the generation before the increment is taken for the new one.
ExDropOldGeneration(c) ==
  /\ exPc[c] \in {"readers", "wait"}
  /\ exGen' = [exGen EXCEPT ![c] = @ + 1]
  /\ exMark' = [exMark EXCEPT ![c] = exGen[c]]
  /\ ExGo(c, "detach")
  /\ UNCHANGED <<exPlan, exFound, exLocks, exProcess, exWatchers, exDetached, exFinal, exHarness>>

\* RequestCancellationGuard is dropped armed: the request is dropped, or its input
\* cannot be written.  mark_detached takes a generation,
ExDrop(c) ==
  /\ exPc[c] \in {"readers", "wait"}
  /\ exGen' = [exGen EXCEPT ![c] = @ + 1]
  /\ exMark' = [exMark EXCEPT ![c] = exGen'[c]]
  /\ ExGo(c, "detach")
  /\ UNCHANGED <<exPlan, exFound, exLocks, exProcess, exWatchers, exDetached, exFinal, exHarness>>

\* stores it and starts the timer; the locks that no monitor has are given back.
ExDetach(c) ==
  /\ exPc[c] = "detach"
  /\ exDetached' = [exDetached EXCEPT ![c] = exMark[c]]
  /\ exTimer' = [exTimer EXCEPT ![c] = "armed"]
  /\ exOpLock' = ExUnlocked(c)
  /\ IF ExWaited(c) THEN UNCHANGED exResource ELSE ExResourceFreed(c)
  /\ ExGo(c, "end")
  /\ UNCHANGED <<exPlan, exFound, exSlots, exIndex, exProcess, exMonitor, exGen, exMark,
                 exFinal, exHarness>>

\* is_still_detached.
ExStillDetached(s) == exDetached[s] = exMark[s] /\ exGen[s] = exMark[s]

\* A kill reaches the process, if it still runs.
ExKilled(s) ==
  exProc' = [exProc EXCEPT ![s] = IF @ = "running" THEN "dying" ELSE @]

\* DETACHED_SESSION_GRACE is over: kill_and_wait, which needs the child's lock when
\* there is no exit waiter.
ExTimerFires(s) ==
  /\ exTimer[s] = "armed"
  /\ IF exFinal[s] \/ ~ ExStillDetached(s)
       THEN exTimer' = [exTimer EXCEPT ![s] = "off"] /\ UNCHANGED exProc
       ELSE /\ exTimer' = [exTimer EXCEPT ![s] = IF ExWaited(s) THEN "off" ELSE "kill"]
            /\ IF ExWaited(s) THEN ExKilled(s) ELSE UNCHANGED exProc
  /\ UNCHANGED <<exCallVars, exLocks, exExited, exChild, exMonitor, exAttachment, exFinal, exHarness>>

ExTimerKills(s) ==
  /\ exTimer[s] = "kill" /\ exChild[s] = ExNobody
  /\ exChild' = [exChild EXCEPT ![s] = "timer"]
  /\ exTimer' = [exTimer EXCEPT ![s] = "off"]
  /\ ExKilled(s)
  /\ UNCHANGED <<exCallVars, exLocks, exExited, exMonitor, exAttachment, exFinal, exHarness>>

-----------------------------------------------------------------------------
(* kill_session                                                            *)

ExKill(c) ==
  /\ exPc[c] = "new" /\ exKind[c] = "kill"
  /\ \E o \in {"run", "other"} :
       LET s == exIndex[o] IN
         IF s = ExNobody THEN ExGo(c, "end") /\ UNCHANGED <<exFound, exGen>>
         ELSE /\ exFound' = [exFound EXCEPT ![c] = s]
              /\ exGen' = [exGen EXCEPT ![s] = @ + 1]
              /\ ExGo(c, "touch")
  /\ UNCHANGED <<exPlan, exLocks, exProcess, exWatchers, exDetached, exMark, exFinal, exHarness>>

\* is_running; a running process gets the signal, which it may ignore, or, without an
\* exit waiter, a kill.  Only a session found ended may be evicted.
ExSignal(c) ==
  LET s == exFound[c] IN
    /\ exPc[c] = "kill" /\ ExRefreshed(s)
    /\ IF exExited'[s] THEN ExGo(c, "evict") /\ UNCHANGED exProc
       ELSE IF ExWaited(s) THEN ExGo(c, "end") /\ (ExKilled(s) \/ UNCHANGED exProc)
       ELSE ExGo(c, "killing") /\ UNCHANGED exProc
    /\ UNCHANGED <<exPlan, exFound, exLocks, exChild, exWatchers, exAttachment, exFinal, exHarness>>

ExKillAndWait(c) ==
  LET s == exFound[c] IN
    /\ exPc[c] = "killing" /\ exChild[s] = ExNobody
    /\ exChild' = [exChild EXCEPT ![s] = c]
    /\ ExKilled(s)
    /\ UNCHANGED <<exCallVars, exLocks, exExited, exWatchers, exAttachment, exFinal, exHarness>>

ExEvict(c) ==
  LET s == exFound[c] IN
    /\ exPc[c] = "evict"
    /\ exIndex' = IF exFinal[s] THEN [o \in {"run", "other"} |-> IF exIndex[o] = s THEN ExNobody ELSE exIndex[o]]
                  ELSE exIndex
    /\ ExGo(c, "end")
    /\ UNCHANGED <<exPlan, exFound, exOpLock, exResource, exSlots, exProcess, exWatchers,
                   exAttachment, exFinal, exHarness>>

-----------------------------------------------------------------------------
(* The process, its waiter and its monitor                                 *)

ExExit(s) ==
  /\ ExAlive(s)
  /\ exProc' = [exProc EXCEPT ![s] = "gone"]
  /\ UNCHANGED <<exCallVars, exLocks, exExited, exChild, exWatchers, exAttachment, exFinal, exHarness>>

\* Who waits with the child's lock records the exit.
ExReap(s) ==
  /\ exChild[s] # ExNobody /\ exProc[s] = "gone"
  /\ exExited' = [exExited EXCEPT ![s] = TRUE]
  /\ exChild' = [exChild EXCEPT ![s] = ExNobody]
  /\ exPc' = [c \in ExCalls |-> IF exChild[s] = c THEN "end" ELSE exPc[c]]
  /\ UNCHANGED <<exPlan, exFound, exLocks, exProc, exWatchers, exAttachment, exFinal, exHarness>>

ExMonitorGo(s, at) == exMonitor' = [exMonitor EXCEPT ![s] = at] /\ UNCHANGED exTimer

\* wait_until_exited, or the deadline and its kill_and_wait, which gives up in the end.
ExMonitorWatches(s) ==
  /\ \/ exMonitor[s] = "watch" /\ exExited[s] /\ ExMonitorGo(s, "cleanup") /\ UNCHANGED exProc
     \/ exMonitor[s] = "watch" /\ ~ exExited[s] /\ ExMonitorGo(s, "kill") /\ ExKilled(s)
     \/ exMonitor[s] = "kill" /\ ExMonitorGo(s, "cleanup") /\ UNCHANGED exProc
  /\ UNCHANGED <<exCallVars, exLocks, exExited, exChild, exAttachment, exFinal, exHarness>>

\* Mutated form of ExFinalize: the backend is let go without the child's lock.
ExFinalizeEarly(s) ==
  /\ exMonitor[s] = "cleanup"
  /\ exFinal' = [exFinal EXCEPT ![s] = TRUE]
  /\ exSlots' = exSlots \ {s}
  /\ ExMonitorGo(s, "record")
  /\ UNCHANGED <<exCallVars, exOpLock, exResource, exIndex, exProcess, exAttachment, exHarness>>

\* release_backend_lifetimes takes the child's lock; then finish_session begins and
\* gives the slot back.
ExFinalize(s) ==
  /\ exMonitor[s] = "cleanup" /\ exChild[s] = ExNobody
  /\ exFinal' = [exFinal EXCEPT ![s] = TRUE]
  /\ exSlots' = exSlots \ {s}
  /\ ExMonitorGo(s, "record")
  /\ UNCHANGED <<exCallVars, exOpLock, exResource, exIndex, exProcess, exAttachment, exHarness>>

-----------------------------------------------------------------------------
(* The harness's operation log                                             *)

\* record_harness_operation_finalization: whatever was not recorded is; a write that
\* fails may be tried again.
ExRecord(s) ==
  LET todo == exOps[s] \ exRecorded[s] IN
    \E failed \in SUBSET todo :
      /\ exLog' = [c \in ExCalls |-> exLog[c] + IF c \in todo \ failed THEN 1 ELSE 0]
      /\ exRecorded' = [exRecorded EXCEPT ![s] = @ \cup (todo \ failed)]
      /\ exUnlogged' = (exUnlogged \ todo) \cup failed

\* The monitor records, wakes who waits, and lets go of the resource.
ExMonitorRecords(s) ==
  /\ exMonitor[s] = "record"
  /\ ExRecord(s)
  /\ ExResourceFreed(s)
  /\ ExMonitorGo(s, "done")
  /\ UNCHANGED <<exCallVars, exOpLock, exSlots, exIndex, exProcess, exAttachment, exFinal, exOps>>

\* finish_tracked_call hands the operation to a session that is retained.
ExTrack(c) ==
  LET s == exFound[c] IN
    /\ exPc[c] = "track"
    /\ IF s \in {exIndex["run"], exIndex["other"]}
         THEN exOps' = [exOps EXCEPT ![s] = @ \cup {c}] /\ ExGo(c, "check") /\ UNCHANGED exLog
         ELSE exLog' = [exLog EXCEPT ![c] = @ + 1] /\ ExGo(c, "done") /\ UNCHANGED exOps
    /\ UNCHANGED <<exPlan, exFound, exLocks, exProcess, exWatchers, exAttachment, exFinal,
                   exRecorded, exUnlogged>>

\* Mutated form of ExCheck: attaching leaves the log to the monitor.
ExCheckNothing(c) ==
  /\ exPc[c] = "check"
  /\ ExGo(c, "done")
  /\ UNCHANGED <<exPlan, exFound, exLocks, exProcess, exWatchers, exAttachment, exFinal, exHarness>>

\* attach_harness_operation may come too late for the monitor, and records itself.
ExCheck(c) ==
  /\ exPc[c] = "check"
  /\ IF exFinal[exFound[c]] THEN ExRecord(exFound[c]) ELSE UNCHANGED <<exLog, exRecorded, exUnlogged>>
  /\ ExGo(c, "done")
  /\ UNCHANGED <<exPlan, exFound, exLocks, exProcess, exWatchers, exAttachment, exFinal, exOps>>

-----------------------------------------------------------------------------
ExCall(c) ==
  \/ ExAdmit(c) \/ ExTouch(c) \/ ExRefresh(c) \/ ExTakeResource(c) \/ ExTakeSlot(c) \/ ExStart(c)
  \/ ExWatch(c) \/ ExReturn(c) \/ ExFails(c) \/ ExDrop(c) \/ ExDetach(c)
  \/ ExKill(c) \/ ExSignal(c) \/ ExKillAndWait(c) \/ ExEvict(c) \/ ExTrack(c) \/ ExCheck(c)

ExMonitorStep(s) ==
  ExMonitorWatches(s) \/ ExFinalize(s) \/ ExMonitorRecords(s)

ExTimerStep(s) == ExTimerFires(s) \/ ExTimerKills(s)

ExNext ==
  \E c \in ExCalls : ExCall(c) \/ ExExit(c) \/ ExReap(c) \/ ExMonitorStep(c) \/ ExTimerStep(c)

\* Spawned tasks run, deadlines and grace periods pass, and a killed process dies.
ExGoesOn ==
  \E s \in ExCalls : ExMonitorStep(s) \/ ExTimerStep(s) \/ ExReap(s)
                     \/ (exProc[s] = "dying" /\ ExExit(s))

ExFairness == WF_exVars(ExGoesOn)

ExSpec == ExInit /\ [][ExNext]_exVars /\ ExFairness

-----------------------------------------------------------------------------
(* Properties                                                              *)

\* No operation has two unfinished sessions, no process runs without a slot, and two
\* commands never use the resource at once, unless the call that started one of them
\* was dropped before it had a monitor (run_command).
ExOneProcess ==
  /\ Cardinality(exSlots) <= ExLimit
  /\ \A s \in ExCalls : ExAlive(s) => s \in exSlots
  /\ \A s, r \in ExCalls : s # r /\ exKind[s] = "run" =>
       /\ ExAlive(s) /\ ExAlive(r) /\ exKind[r] = "run"
            => \E d \in {s, r} : ~ ExWaited(d) /\ exPc[d] = "end"
       /\ exProc[s] # "none" /\ exProc[r] # "none" /\ ExOperation(r) = "run"
            => exFinal[s] \/ exFinal[r]

\* The end of every call's operation is logged once, by the call, by the session's
\* monitor or by a call that attaches while the session ends, unless a write fails.
ExLoggedOnce ==
  \A c \in ExCalls :
    /\ exLog[c] <= 1
    /\ exPc[c] = "done" =>
         (exMonitor[exFound[c]] = "done" => exLog[c] = 1 \/ c \in exUnlogged)

\* A session with a monitor gives its slot back in the end, and the process of a call
\* that was dropped ends, unless another call has come back to it.
ExAbandonedEnds ==
  <>[](\A s \in ExCalls :
         /\ exMonitor[s] # "none" => s \notin exSlots
         /\ exTimer[s] # "none" => ~ ExAlive(s) \/ (\E c \in ExCalls : exFound[c] = s))
=============================================================================
