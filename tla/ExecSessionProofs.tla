------------------------- MODULE ExecSessionProofs -------------------------
(***************************************************************************)
(* Proofs about the commands the tools run: for every set of calls, and    *)
(* however they are dropped, attach or kill, an operation has one          *)
(* unfinished session, no process runs without a slot, and the end of each *)
(* call's operation is logged once.                                        *)
(***************************************************************************)
EXTENDS ExecSession, FiniteSetTheorems, TLAPS

\* A call that is about to start its operation holds the operation's lock, and no
\* session is indexed; until it starts, it has neither a process nor a monitor.
CallOK(c) ==
  /\ exPc[c] \in {"resource", "slot", "start"} =>
       /\ exKind[c] # "kill" /\ exOpLock[ExOperation(c)] = c
       /\ exIndex[ExOperation(c)] = ExNobody
  /\ exPc[c] = "start" => c \in exSlots
  /\ exPc[c] \in {"new", "resource", "slot", "start", "touch", "refresh", "kill", "killing", "evict"}
       => exProc[c] = "none" /\ exMonitor[c] = "none"
  /\ exPc[c] \in {"touch", "refresh", "kill", "killing", "evict", "track", "check", "done"}
       => exFound[c] \in ExCalls

\* A process has a slot, and its session is indexed until it is finalized, which waits
\* for the child's lock: once the exit waiter has let go of it, the process is gone.
SessionOK(s) ==
  /\ ExAlive(s) => s \in exSlots
  /\ exProc[s] # "none" =>
       exKind[s] # "kill" /\ (~ exFinal[s] => exIndex[ExOperation(s)] = s)
  /\ ExWaited(s) /\ exChild[s] # "waiter" => exProc[s] = "gone"
  /\ exMonitor[s] \in {"record", "done"} => exProc[s] = "gone" /\ exFinal[s]
  /\ exChild[s] \in ExCalls => exPc[exChild[s]] = "killing" /\ exFound[exChild[s]] = s

\* Who uses the resource, or is about to: all but the process whose call was dropped
\* before there was a monitor.
Uses(s) ==
  \/ exPc[s] \in {"slot", "start"}
  \/ ExAlive(s) /\ (ExWaited(s) \/ exPc[s] # "end")

ResourceOK(s) == exKind[s] = "run" /\ Uses(s) => exResource = s

\* The log of a call: nothing before it has handed its operation on; then the operation
\* is recorded by the session exactly when it is logged, and not left to a monitor that
\* is done.
LogOK(c) ==
  /\ exLog[c] \in {0, 1}
  /\ exPc[c] \notin {"check", "done"} => exLog[c] = 0 /\ \A s \in ExCalls : c \notin exOps[s]
  /\ exPc[c] = "check" => c \in exOps[exFound[c]]
  /\ \A s \in ExCalls :
       /\ c \in exRecorded[s] => c \in exOps[s]
       /\ c \in exOps[s] => s = exFound[c] /\ (exLog[c] = 1 <=> c \in exRecorded[s])
  /\ exPc[c] = "done" =>
       \/ exLog[c] = 1
       \/ c \in exOps[exFound[c]] /\ (exMonitor[exFound[c]] = "done" => c \in exUnlogged)

SlotsOK == IsFiniteSet(exSlots) /\ Cardinality(exSlots) <= ExLimit

Inv ==
  /\ ExTypeOK /\ SlotsOK
  /\ \A c \in ExCalls : CallOK(c) /\ SessionOK(c) /\ ResourceOK(c) /\ LogOK(c)

\* The operation of a command is one of the two.
LEMMA Operations ==
  ASSUME ExTypeOK, NEW c \in ExCalls, exKind[c] # "kill"
  PROVE  ExOperation(c) \in {"run", "other"}
  BY DEF ExTypeOK, ExOperation, ExKinds

\* What is recorded of a session's operations: every one, once, or it is known to have
\* failed; of the others nothing changes.
LEMMA RecordFacts ==
  ASSUME ExTypeOK, NEW s \in ExCalls, ExRecord(s), \A c \in ExCalls : LogOK(c), UNCHANGED exOps
  PROVE  /\ exRecorded'[s] \subseteq exOps[s]
         /\ \A t \in ExCalls \ {s} : exRecorded'[t] = exRecorded[t]
         /\ \A c \in ExCalls :
              /\ c \in exOps[s] =>
                   /\ exLog'[c] = 1 <=> c \in exRecorded'[s]
                   /\ exLog'[c] = 1 \/ c \in exUnlogged'
                   /\ exLog'[c] \in {0, 1}
              /\ c \notin exOps[s] =>
                   exLog'[c] = exLog[c] /\ (c \in exUnlogged' <=> c \in exUnlogged)
  BY DEF ExRecord, ExTypeOK, LogOK

-----------------------------------------------------------------------------
(* One lemma per action                                                    *)

\* An operation is admitted: a new session may only start where none is left unfinished.
LEMMA AdmitInv == ASSUME Inv, NEW c \in ExCalls, ExAdmit(c) PROVE Inv'
  <1>1. ExTypeOK'
    <2>1. ExOperation(c) \in {"run", "other"}
      BY Operations DEF Inv, ExAdmit
    <2>2. /\ exPc' \in [ExCalls -> {exPc[d] : d \in ExCalls} \cup {"resource", "slot", "touch", "end"}]
          /\ exFound' \in [ExCalls -> ExCalls \cup {ExNobody}]
          /\ exGen' \in [ExCalls -> Nat]
      BY <2>1 DEF Inv, ExTypeOK, ExAdmit, ExGo
    <2>3. /\ exOpLock' \in [{"run", "other"} -> ExCalls \cup {ExNobody}]
          /\ exIndex' \in [{"run", "other"} -> ExCalls \cup {ExNobody}]
      BY <2>1 DEF Inv, ExTypeOK, ExAdmit
    <2> QED
      BY <2>2, <2>3 DEF Inv, ExTypeOK, ExAdmit, exPlan, exProcess, exWatchers, exHarness
  <1>2. \A d \in ExCalls : CallOK(d)'
    BY ExAssumption, Operations DEF Inv, ExTypeOK, CallOK, ExAdmit, ExOperation, ExGo,
    exPlan, exProcess, exWatchers
  <1>3. \A d \in ExCalls : SessionOK(d)'
    BY Operations DEF Inv, ExTypeOK, SessionOK, ExAlive, ExWaited, ExAdmit, ExOperation,
    ExReuses, ExGo, exPlan, exProcess, exWatchers
  <1>4. \A d \in ExCalls : ResourceOK(d)'
    BY DEF Inv, ExTypeOK, ResourceOK, Uses, ExAlive, ExWaited, ExAdmit, ExGo, exPlan,
       exProcess, exWatchers
  <1>5. \A d \in ExCalls : LogOK(d)'
    BY DEF Inv, ExTypeOK, CallOK, ResourceOK, Uses, LogOK, ExAdmit, ExGo, exWatchers,
       exHarness
  <1> QED  BY <1>1, <1>2, <1>3, <1>4, <1>5 DEF Inv, SlotsOK, ExAdmit

\* Calls that attach to a session or kill it.
LEMMA TouchInv == ASSUME Inv, NEW c \in ExCalls, ExTouch(c) PROVE Inv'
  <1>1. ExTypeOK'
    BY DEF Inv, ExTypeOK, CallOK, ExTouch, ExGo, exPlan, exLocks, exProcess, exWatchers,
       exHarness
  <1>2. \A d \in ExCalls : CallOK(d)'
    BY DEF Inv, CallOK, ExOperation, ExTouch, ExGo, exPlan, exLocks, exProcess, exWatchers
  <1>3. \A d \in ExCalls : SessionOK(d)'
    BY DEF Inv, SessionOK, ExOperation, ExAlive, ExWaited, ExTouch, ExGo, exPlan, exLocks,
       exProcess, exWatchers
  <1>4. \A d \in ExCalls : ResourceOK(d)'
    BY DEF Inv, ResourceOK, Uses, ExAlive, ExWaited, ExTouch, ExGo, exPlan, exLocks,
       exProcess, exWatchers
  <1>5. \A d \in ExCalls : LogOK(d)'
    BY DEF Inv, LogOK, ExTouch, ExGo, exWatchers, exHarness
  <1> QED  BY <1>1, <1>2, <1>3, <1>4, <1>5 DEF Inv, SlotsOK, ExTouch, exLocks

LEMMA RefreshInv == ASSUME Inv, NEW c \in ExCalls, ExRefresh(c) PROVE Inv'
  <1>1. ExTypeOK'
    <2>1. exExited' \in [ExCalls -> BOOLEAN]
      BY DEF Inv, ExTypeOK, ExRefresh, ExRefreshed
    <2>2. /\ exPc' = [exPc EXCEPT ![c] = "done"] \/ exPc' = [exPc EXCEPT ![c] = "track"]
          /\ exLog' = [exLog EXCEPT ![c] = @ + 1] \/ exLog' = exLog
      BY DEF ExRefresh, ExAnswer, ExGo
    <2>3. exOpLock' \in [{"run", "other"} -> ExCalls \cup {ExNobody}]
      BY DEF Inv, ExTypeOK, ExRefresh, ExUnlocked
    <2> QED
      BY <2>1, <2>2, <2>3 DEF Inv, ExTypeOK, ExRefresh, exPlan, exWatchers, exAttachment
  <1>2. \A d \in ExCalls : CallOK(d)'
    BY Operations DEF Inv, ExTypeOK, CallOK, ExOperation, ExRefresh, ExAnswer, ExGo,
    ExUnlocked, exPlan, exWatchers
  <1>3. \A d \in ExCalls : SessionOK(d)'
    BY DEF Inv, ExTypeOK, SessionOK, ExOperation, ExRefresh, ExWaited, ExAlive, ExAnswer,
       ExGo, exPlan, exWatchers
  <1>4. \A d \in ExCalls : ResourceOK(d)'
    BY DEF Inv, ExTypeOK, ResourceOK, Uses, ExRefresh, ExWaited, ExAlive, ExAnswer, ExGo,
       exPlan, exWatchers
  <1>5. \A d \in ExCalls : LogOK(d)'
    BY DEF Inv, ExTypeOK, SlotsOK, SessionOK, LogOK, ExRefresh, ExAnswer, ExGo, exWatchers
  <1> QED  BY <1>1, <1>2, <1>3, <1>4, <1>5 DEF Inv, SlotsOK, ExRefresh

\* A call that starts a command of its own: it takes the resource, then a slot.
LEMMA TakeResourceInv == ASSUME Inv, NEW c \in ExCalls, ExTakeResource(c) PROVE Inv'
  <1>1. ExTypeOK'
    BY DEF Inv, ExTypeOK, ExTakeResource, ExGo, exPlan, exProcess, exWatchers,
       exAttachment, exHarness
  <1>2. \A d \in ExCalls : CallOK(d)'
    BY DEF Inv, CallOK, ExOperation, ExTakeResource, ExGo, exPlan, exProcess, exWatchers
  <1>3. \A d \in ExCalls : SessionOK(d)'
    BY DEF Inv, SessionOK, ExOperation, ExAlive, ExWaited, ExTakeResource, ExGo, exPlan,
       exProcess, exWatchers
  <1>4. \A d \in ExCalls : ResourceOK(d)'
    BY ExAssumption DEF Inv, ResourceOK, Uses, ExAlive, ExWaited, ExTakeResource, ExGo,
    exPlan, exProcess, exWatchers
  <1>5. \A d \in ExCalls : LogOK(d)'
    BY DEF Inv, LogOK, ExTakeResource, ExGo, exWatchers, exHarness
  <1> QED  BY <1>1, <1>2, <1>3, <1>4, <1>5 DEF Inv, SlotsOK, ExTakeResource

LEMMA TakeSlotInv == ASSUME Inv, NEW c \in ExCalls, ExTakeSlot(c) PROVE Inv'
  <1>1. ExTypeOK'
    BY DEF Inv, ExTypeOK, ExTakeSlot, ExGo, exPlan, exProcess, exWatchers, exAttachment,
       exHarness
  <1>2. SlotsOK'
    <2>1. exSlots' = exSlots \cup {c} /\ IsFiniteSet(exSlots) /\ Cardinality(exSlots) < ExLimit
      BY DEF ExTakeSlot, Inv, SlotsOK
    <2>2. IsFiniteSet(exSlots') /\ Cardinality(exSlots) \in Nat
      BY <2>1, FS_AddElement, FS_CardinalityType
    <2>3. Cardinality(exSlots') \in {Cardinality(exSlots), Cardinality(exSlots) + 1}
      BY <2>1, FS_AddElement
    <2> QED  BY <2>1, <2>2, <2>3, ExAssumption DEF SlotsOK
  <1>3. \A d \in ExCalls : CallOK(d)'
    BY DEF Inv, CallOK, ExOperation, ExTakeSlot, ExGo, exPlan, exProcess, exWatchers
  <1>4. \A d \in ExCalls : SessionOK(d)'
    BY DEF Inv, SessionOK, ExOperation, ExAlive, ExWaited, ExTakeSlot, ExGo, exPlan,
       exProcess, exWatchers
  <1>5. \A d \in ExCalls : ResourceOK(d)'
    BY DEF Inv, ResourceOK, Uses, ExAlive, ExWaited, ExTakeSlot, ExGo, exPlan, exProcess,
       exWatchers
  <1>6. \A d \in ExCalls : LogOK(d)'
    BY DEF Inv, LogOK, ExTakeSlot, ExGo, exWatchers, exHarness
  <1> QED  BY <1>1, <1>2, <1>3, <1>4, <1>5, <1>6 DEF Inv

LEMMA StartInv == ASSUME Inv, NEW c \in ExCalls, ExStart(c) PROVE Inv'
  <1>1. ExTypeOK'
    BY DEF Inv, ExTypeOK, ExStart, ExGo, exPlan, exWatchers, exAttachment, exHarness
  <1>2. \A d \in ExCalls : CallOK(d)'
    BY DEF Inv, ExTypeOK, CallOK, ExStart, ExOperation, ExGo, exPlan, exWatchers
  <1>3. \A d \in ExCalls : SessionOK(d)'
    BY ExAssumption, <1>1 DEF Inv, ExTypeOK, CallOK, SessionOK, ExAlive, ExWaited, ExStart,
    ExOperation, ExGo, exPlan, exWatchers
  <1>4. \A d \in ExCalls : ResourceOK(d)'
    BY DEF Inv, ResourceOK, Uses, ExAlive, ExWaited, ExStart, ExGo, exPlan, exWatchers
  <1>5. \A d \in ExCalls : LogOK(d)'
    BY DEF Inv, LogOK, ExStart, ExGo, exWatchers, exHarness
  <1> QED  BY <1>1, <1>2, <1>3, <1>4, <1>5 DEF Inv, SlotsOK, ExStart

LEMMA WatchInv == ASSUME Inv, NEW c \in ExCalls, ExWatch(c) PROVE Inv'
  <1>1. ExTypeOK'
    BY DEF Inv, ExTypeOK, ExWatch, ExUnlocked, ExGo, exPlan, exAttachment, exHarness
  <1>2. \A d \in ExCalls : CallOK(d)'
    BY Operations DEF Inv, CallOK, ExOperation, ExWatch, ExUnlocked, ExGo, exPlan
  <1>3. \A d \in ExCalls : SessionOK(d)'
    BY ExAssumption DEF Inv, ExTypeOK, SessionOK, ExOperation, ExAlive, ExWaited, ExWatch,
    ExGo, exPlan
  <1>4. \A d \in ExCalls : ResourceOK(d)'
    BY DEF Inv, ResourceOK, Uses, ExAlive, ExWaited, ExWatch, ExGo, exPlan
  <1>5. \A d \in ExCalls : LogOK(d)'
    BY DEF Inv, LogOK, ExWatch, ExGo, exHarness
  <1> QED  BY <1>1, <1>2, <1>3, <1>4, <1>5 DEF Inv, SlotsOK, ExWatch

LEMMA ReturnInv == ASSUME Inv, NEW c \in ExCalls, ExReturn(c) PROVE Inv'
  <1>1. ExTypeOK'
    BY DEF Inv, ExTypeOK, ExReturn, ExAnswer, ExGo, exPlan, exLocks, exProcess, exWatchers,
       exAttachment
  <1>2. \A d \in ExCalls : CallOK(d)'
    BY DEF Inv, ExTypeOK, CallOK, ExOperation, ExReturn, ExAnswer, ExGo, exPlan, exLocks,
       exProcess, exWatchers
  <1>3. \A d \in ExCalls : SessionOK(d)'
    BY DEF Inv, ExTypeOK, SessionOK, ExOperation, ExAlive, ExWaited, ExReturn, ExAnswer,
       ExGo, exPlan, exLocks, exProcess, exWatchers
  <1>4. \A d \in ExCalls : ResourceOK(d)'
    BY DEF Inv, ExTypeOK, ResourceOK, Uses, ExAlive, ExWaited, ExReturn, ExAnswer, ExGo,
       exPlan, exLocks, exProcess, exWatchers
  <1>5. \A d \in ExCalls : LogOK(d)'
    BY DEF Inv, ExTypeOK, LogOK, ExReturn, ExAnswer, ExGo, exWatchers
  <1> QED  BY <1>1, <1>2, <1>3, <1>4, <1>5 DEF Inv, SlotsOK, ExReturn, exLocks

\* Calls that fail or are dropped.
LEMMA FailsInv == ASSUME Inv, NEW c \in ExCalls, ExFails(c) PROVE Inv'
  <1>1. ExTypeOK'
    BY DEF Inv, ExTypeOK, ExFails, ExGo, ExUnlocked, ExResourceFreed, exPlan, exWatchers,
       exAttachment, exHarness
  <1>2. SlotsOK'
    <2>1. exSlots' \subseteq exSlots /\ IsFiniteSet(exSlots) /\ Cardinality(exSlots) <= ExLimit
      BY DEF ExFails, Inv, SlotsOK
    <2>2. IsFiniteSet(exSlots') /\ Cardinality(exSlots') <= Cardinality(exSlots)
      BY <2>1, FS_Subset
    <2> QED  BY <2>1, <2>2, ExAssumption, FS_CardinalityType DEF SlotsOK
  <1>3. \A d \in ExCalls : CallOK(d)'
    BY Operations DEF Inv, ExTypeOK, CallOK, ExOperation, ExFails, ExGo, ExUnlocked,
    exPlan, exWatchers
  <1>4. \A d \in ExCalls : SessionOK(d)'
    BY ExAssumption DEF Inv, CallOK, SessionOK, ExOperation, ExAlive, ExWaited, ExFails,
    ExGo, exPlan, exWatchers
  <1>5. \A d \in ExCalls : ResourceOK(d)'
    BY DEF Inv, ExTypeOK, CallOK, ResourceOK, Uses, ExAlive, ExWaited, ExFails, ExGo,
       ExResourceFreed, exPlan, exWatchers
  <1>6. \A d \in ExCalls : LogOK(d)'
    BY DEF Inv, LogOK, ExFails, ExGo, exWatchers, exHarness
  <1> QED  BY <1>1, <1>2, <1>3, <1>4, <1>5, <1>6 DEF Inv

LEMMA DropInv == ASSUME Inv, NEW c \in ExCalls, ExDrop(c) PROVE Inv'
  <1>1. ExTypeOK'
    BY DEF Inv, ExTypeOK, ExDrop, ExGo, exPlan, exLocks, exProcess, exWatchers, exHarness
  <1>2. \A d \in ExCalls : CallOK(d)'
    BY DEF Inv, CallOK, ExOperation, ExDrop, ExGo, exPlan, exLocks, exProcess, exWatchers
  <1>3. \A d \in ExCalls : SessionOK(d)'
    BY DEF Inv, SessionOK, ExOperation, ExAlive, ExWaited, ExDrop, ExGo, exPlan, exLocks,
       exProcess, exWatchers
  <1>4. \A d \in ExCalls : ResourceOK(d)'
    BY DEF Inv, ResourceOK, Uses, ExAlive, ExWaited, ExDrop, ExGo, exPlan, exLocks,
       exProcess, exWatchers
  <1>5. \A d \in ExCalls : LogOK(d)'
    BY DEF Inv, LogOK, ExDrop, ExGo, exWatchers, exHarness
  <1> QED  BY <1>1, <1>2, <1>3, <1>4, <1>5 DEF Inv, SlotsOK, ExDrop, exLocks

LEMMA DetachInv == ASSUME Inv, NEW c \in ExCalls, ExDetach(c) PROVE Inv'
  <1>1. ExTypeOK'
    BY DEF Inv, ExTypeOK, ExDetach, ExUnlocked, ExResourceFreed, ExGo, exPlan, exProcess,
       exHarness
  <1>2. \A d \in ExCalls : CallOK(d)'
    BY Operations DEF Inv, CallOK, ExOperation, ExDetach, ExUnlocked, ExGo, exPlan,
    exProcess
  <1>3. \A d \in ExCalls : SessionOK(d)'
    BY DEF Inv, SessionOK, ExOperation, ExAlive, ExDetach, ExWaited, ExGo, exPlan,
       exProcess
  <1>4. \A d \in ExCalls : ResourceOK(d)'
    BY DEF Inv, ExTypeOK, ResourceOK, Uses, ExAlive, ExDetach, ExWaited, ExResourceFreed,
       ExGo, exPlan, exProcess
  <1>5. \A d \in ExCalls : LogOK(d)'
    BY DEF Inv, LogOK, ExDetach, ExGo, exHarness
  <1> QED  BY <1>1, <1>2, <1>3, <1>4, <1>5 DEF Inv, SlotsOK, ExDetach

\* Calls that kill a session.
LEMMA KillInv == ASSUME Inv, NEW c \in ExCalls, ExKill(c) PROVE Inv'
  <1>1. ExTypeOK'
    BY DEF Inv, ExTypeOK, ExKill, ExGo, exPlan, exLocks, exProcess, exWatchers, exHarness
  <1>2. \A d \in ExCalls : CallOK(d)'
    BY DEF Inv, ExTypeOK, CallOK, ExOperation, ExKill, ExGo, exPlan, exLocks, exProcess,
       exWatchers
  <1>3. \A d \in ExCalls : SessionOK(d)'
    BY DEF Inv, ExTypeOK, SessionOK, ExOperation, ExAlive, ExWaited, ExKill, ExGo, exPlan,
       exLocks, exProcess, exWatchers
  <1>4. \A d \in ExCalls : ResourceOK(d)'
    BY DEF Inv, ExTypeOK, ResourceOK, Uses, ExAlive, ExWaited, ExKill, ExGo, exPlan,
       exLocks, exProcess, exWatchers
  <1>5. \A d \in ExCalls : LogOK(d)'
    <2>1. /\ \A d \in ExCalls : d # c => exPc'[d] = exPc[d] /\ exFound'[d] = exFound[d]
          /\ exPc[c] = "new" /\ exPc'[c] \in {"touch", "end"}
          /\ UNCHANGED <<exMonitor, exHarness>>
      BY DEF Inv, ExTypeOK, ExKill, ExGo, exWatchers
    <2> QED  BY <2>1 DEF Inv, LogOK, exHarness
  <1> QED  BY <1>1, <1>2, <1>3, <1>4, <1>5 DEF Inv, SlotsOK, ExKill, exLocks

LEMMA SignalInv == ASSUME Inv, NEW c \in ExCalls, ExSignal(c) PROVE Inv'
  <1>1. ExTypeOK'
    BY DEF Inv, CallOK, ExTypeOK, ExSignal, ExRefreshed, ExWaited, ExAlive, ExGo, ExKilled,
       exPlan, exLocks, exWatchers, exAttachment, exHarness
  <1>2. \A d \in ExCalls : CallOK(d)'
    BY DEF Inv, ExTypeOK, CallOK, ExOperation, ExSignal, ExGo, ExKilled, exPlan, exLocks,
       exWatchers
  <1>3. \A d \in ExCalls : SessionOK(d)'
    BY DEF Inv, ExTypeOK, SessionOK, ExOperation, ExSignal, ExWaited, ExAlive, ExGo,
       ExKilled, exPlan, exLocks, exWatchers
  <1>4. \A d \in ExCalls : ResourceOK(d)'
    BY DEF Inv, ExTypeOK, ResourceOK, Uses, ExSignal, ExWaited, ExAlive, ExGo, ExKilled,
       exPlan, exLocks, exWatchers
  <1>5. \A d \in ExCalls : LogOK(d)'
    BY DEF Inv, ExTypeOK, LogOK, ExSignal, ExGo, exWatchers, exHarness
  <1> QED  BY <1>1, <1>2, <1>3, <1>4, <1>5 DEF Inv, SlotsOK, ExSignal, exLocks

LEMMA KillAndWaitInv == ASSUME Inv, NEW c \in ExCalls, ExKillAndWait(c) PROVE Inv'
  <1>1. ExTypeOK'
    BY DEF Inv, ExTypeOK, ExKillAndWait, ExKilled, exCallVars, exPlan, exLocks, exWatchers,
       exAttachment, exHarness
  <1>2. \A d \in ExCalls : CallOK(d)'
    BY DEF Inv, CallOK, ExOperation, ExKillAndWait, ExKilled, exCallVars, exPlan, exLocks,
       exWatchers
  <1>3. \A d \in ExCalls : SessionOK(d)'
    BY ExAssumption DEF Inv, SessionOK, ExOperation, ExAlive, ExWaited, ExKillAndWait,
    ExKilled, exCallVars, exPlan, exLocks, exWatchers
  <1>4. \A d \in ExCalls : ResourceOK(d)'
    BY DEF Inv, ResourceOK, Uses, ExAlive, ExWaited, ExKillAndWait, ExKilled, exCallVars,
       exPlan, exLocks, exWatchers
  <1>5. \A d \in ExCalls : LogOK(d)'
    BY DEF Inv, LogOK, ExKillAndWait, exCallVars, exWatchers, exHarness
  <1> QED  BY <1>1, <1>2, <1>3, <1>4, <1>5 DEF Inv, SlotsOK, ExKillAndWait, exLocks

LEMMA EvictInv == ASSUME Inv, NEW c \in ExCalls, ExEvict(c) PROVE Inv'
  <1>1. ExTypeOK'
    BY DEF Inv, ExTypeOK, ExEvict, ExGo, exPlan, exProcess, exWatchers, exAttachment,
       exHarness
  <1>2. \A d \in ExCalls : CallOK(d)'
    BY Operations DEF Inv, CallOK, ExOperation, ExEvict, ExGo, exPlan, exProcess,
    exWatchers
  <1>3. \A d \in ExCalls : SessionOK(d)'
    BY Operations DEF Inv, SessionOK, ExOperation, ExAlive, ExWaited, ExEvict, ExGo,
    exPlan, exProcess, exWatchers
  <1>4. \A d \in ExCalls : ResourceOK(d)'
    BY DEF Inv, ResourceOK, Uses, ExAlive, ExWaited, ExEvict, ExGo, exPlan, exProcess,
       exWatchers
  <1>5. \A d \in ExCalls : LogOK(d)'
    BY DEF Inv, LogOK, ExEvict, ExGo, exWatchers, exHarness
  <1> QED  BY <1>1, <1>2, <1>3, <1>4, <1>5 DEF Inv, SlotsOK, ExEvict

\* The log: the call hands its operation on, and looks whether it came too late.
LEMMA TrackInv == ASSUME Inv, NEW c \in ExCalls, ExTrack(c) PROVE Inv'
  <1>1. ExTypeOK'
    BY DEF Inv, CallOK, ExTypeOK, ExTrack, ExGo, exPlan, exLocks, exProcess, exWatchers,
       exAttachment
  <1>2. \A d \in ExCalls : CallOK(d)'
    BY DEF Inv, ExTypeOK, CallOK, ExOperation, ExTrack, ExGo, exPlan, exLocks, exProcess,
       exWatchers
  <1>3. \A d \in ExCalls : SessionOK(d)'
    BY DEF Inv, ExTypeOK, SessionOK, ExOperation, ExAlive, ExWaited, ExTrack, ExGo, exPlan,
       exLocks, exProcess, exWatchers
  <1>4. \A d \in ExCalls : ResourceOK(d)'
    BY DEF Inv, ExTypeOK, ResourceOK, Uses, ExAlive, ExWaited, ExTrack, ExGo, exPlan,
       exLocks, exProcess, exWatchers
  <1>5. \A d \in ExCalls : LogOK(d)'
    <2> DEFINE s == exFound[c]
    <2>1. s \in ExCalls /\ exPc[c] = "track"
      BY DEF Inv, CallOK, ExTrack
    <2>2. exLog[c] = 0 /\ \A t \in ExCalls : c \notin exOps[t] /\ c \notin exRecorded[t]
      BY <2>1 DEF Inv, LogOK
    <2>3. UNCHANGED <<exFound, exRecorded, exUnlogged, exMonitor>>
      BY DEF ExTrack, exWatchers, exHarness
    <2>4. \A d \in ExCalls : exPc[d] \in {"check", "done"} => exFound[d] \in ExCalls
      BY DEF Inv, CallOK
    <2>5. CASE /\ exOps' = [exOps EXCEPT ![s] = @ \cup {c}] /\ exPc' = [exPc EXCEPT ![c] = "check"]
               /\ UNCHANGED exLog
      <3>1. ASSUME NEW d \in ExCalls, d # c PROVE LogOK(d)'
        <4>1. exPc'[d] = exPc[d] /\ \A t \in ExCalls : d \in exOps'[t] <=> d \in exOps[t]
          BY <2>1, <2>5, <3>1 DEF Inv, ExTypeOK
        <4> QED  BY <2>3, <2>4, <2>5, <4>1 DEF Inv, LogOK
      <3>2. LogOK(c)'
        <4>1. exPc'[c] = "check" /\ \A t \in ExCalls : c \in exOps'[t] <=> t = s
          BY <2>1, <2>2, <2>5 DEF Inv, ExTypeOK
        <4> QED  BY <2>1, <2>2, <2>3, <2>5, <4>1 DEF LogOK
      <3> QED  BY <3>1, <3>2
    <2>6. CASE /\ exLog' = [exLog EXCEPT ![c] = @ + 1] /\ exPc' = [exPc EXCEPT ![c] = "done"]
               /\ UNCHANGED exOps
      <3>1. ASSUME NEW d \in ExCalls, d # c PROVE LogOK(d)'
        <4>1. exPc'[d] = exPc[d] /\ exLog'[d] = exLog[d]
          BY <2>6, <3>1 DEF Inv, ExTypeOK
        <4> QED  BY <2>3, <2>6, <4>1 DEF Inv, LogOK
      <3>2. LogOK(c)'
        <4>1. exPc'[c] = "done" /\ exLog'[c] = 1
          BY <2>2, <2>6 DEF Inv, ExTypeOK
        <4> QED  BY <2>2, <2>3, <2>6, <4>1 DEF LogOK
      <3> QED  BY <3>1, <3>2
    <2> QED  BY <2>5, <2>6 DEF ExTrack, ExGo
  <1> QED  BY <1>1, <1>2, <1>3, <1>4, <1>5 DEF Inv, SlotsOK, ExTrack, exLocks

LEMMA CheckInv == ASSUME Inv, NEW c \in ExCalls, ExCheck(c) PROVE Inv'
  <1>1. ExTypeOK'
    BY DEF Inv, CallOK, ExTypeOK, ExCheck, ExRecord, ExGo, exPlan, exLocks, exProcess,
       exWatchers, exAttachment
  <1>2. \A d \in ExCalls : CallOK(d)'
    BY DEF Inv, CallOK, ExOperation, ExCheck, ExGo, exPlan, exLocks, exProcess, exWatchers
  <1>3. \A d \in ExCalls : SessionOK(d)'
    BY DEF Inv, SessionOK, ExOperation, ExAlive, ExWaited, ExCheck, ExGo, exPlan, exLocks,
       exProcess, exWatchers
  <1>4. \A d \in ExCalls : ResourceOK(d)'
    BY DEF Inv, ResourceOK, Uses, ExAlive, ExWaited, ExCheck, ExGo, exPlan, exLocks,
       exProcess, exWatchers
  <1>5. \A d \in ExCalls : LogOK(d)'
    <2> DEFINE s == exFound[c]
    <2>1. s \in ExCalls /\ exPc[c] = "check" /\ c \in exOps[s]
      BY DEF Inv, CallOK, LogOK, ExCheck
    <2>2. UNCHANGED <<exFound, exOps, exMonitor, exFinal>> /\ exPc' = [exPc EXCEPT ![c] = "done"]
      BY DEF ExCheck, ExGo, exWatchers
    <2>3. exPc'[c] = "done" /\ \A d \in ExCalls \ {c} : exPc'[d] = exPc[d]
      BY <2>2 DEF Inv, ExTypeOK
    <2>4. \A d \in ExCalls : exPc[d] \in {"check", "done"} => exFound[d] \in ExCalls
      BY DEF Inv, CallOK
    <2>5. CASE exFinal[s] /\ ExRecord(s)
      <3>1. ASSUME NEW d \in ExCalls, d \in exOps[s] PROVE LogOK(d)'
        <4>1. exFound[d] = s /\ \A t \in ExCalls \ {s} : d \notin exOps[t] /\ d \notin exRecorded[t]
          BY <2>1, <3>1 DEF Inv, LogOK
        <4>2. /\ exLog'[d] = 1 <=> d \in exRecorded'[s]
              /\ exLog'[d] = 1 \/ d \in exUnlogged'
              /\ exLog'[d] \in {0, 1}
              /\ \A t \in ExCalls \ {s} : d \notin exRecorded'[t]
          BY <2>1, <2>2, <2>5, <3>1, <4>1, RecordFacts DEF Inv
        <4>3. exPc'[d] \in {"check", "done"}
          BY <2>1, <2>3, <3>1 DEF Inv, LogOK
        <4> QED  BY <2>1, <2>2, <3>1, <4>1, <4>2, <4>3 DEF LogOK
      <3>2. ASSUME NEW d \in ExCalls, d \notin exOps[s] PROVE LogOK(d)'
        <4>1. d # c /\ d \notin exRecorded[s]
          BY <2>1, <3>2 DEF Inv, LogOK
        <4>2. exLog'[d] = exLog[d] /\ (d \in exUnlogged' <=> d \in exUnlogged)
          BY <2>1, <2>2, <2>5, <3>2, RecordFacts DEF Inv
        <4>3. \A t \in ExCalls : d \in exRecorded'[t] <=> d \in exRecorded[t]
          BY <2>1, <2>2, <2>5, <3>2, <4>1, RecordFacts DEF Inv
        <4> QED  BY <2>2, <2>3, <2>4, <4>1, <4>2, <4>3 DEF Inv, LogOK
      <3> QED  BY <3>1, <3>2
    <2>6. CASE ~ exFinal[s] /\ UNCHANGED <<exLog, exRecorded, exUnlogged>>
      <3>1. exMonitor[s] # "done"
        BY <2>1, <2>6 DEF Inv, SessionOK
      <3>2. ASSUME NEW d \in ExCalls PROVE LogOK(d)'
        <4>1. CASE d = c
          BY <2>1, <2>2, <2>3, <2>6, <3>1, <4>1 DEF Inv, LogOK
        <4>2. CASE d # c
          BY <2>2, <2>3, <2>4, <2>6, <4>2 DEF Inv, LogOK
        <4> QED  BY <4>1, <4>2
      <3> QED  BY <3>2
    <2> QED  BY <2>5, <2>6 DEF ExCheck
  <1> QED  BY <1>1, <1>2, <1>3, <1>4, <1>5 DEF Inv, SlotsOK, ExCheck, exLocks

\* The process, whoever waits for it, and the monitor.
LEMMA ExitInv == ASSUME Inv, NEW c \in ExCalls, ExExit(c) PROVE Inv'
  <1>1. ExTypeOK'
    BY DEF Inv, ExTypeOK, ExExit, exCallVars, exPlan, exLocks, exWatchers, exAttachment,
       exHarness
  <1>2. \A d \in ExCalls : CallOK(d)'
    BY DEF Inv, CallOK, ExOperation, ExExit, ExAlive, exCallVars, exPlan, exLocks,
       exWatchers
  <1>3. \A d \in ExCalls : SessionOK(d)'
    BY DEF Inv, SessionOK, ExOperation, ExWaited, ExExit, ExAlive, exCallVars, exPlan,
       exLocks, exWatchers
  <1>4. \A d \in ExCalls : ResourceOK(d)'
    BY DEF Inv, ResourceOK, Uses, ExWaited, ExExit, ExAlive, exCallVars, exPlan, exLocks,
       exWatchers
  <1>5. \A d \in ExCalls : LogOK(d)'
    BY DEF Inv, LogOK, ExExit, exCallVars, exWatchers, exHarness
  <1> QED  BY <1>1, <1>2, <1>3, <1>4, <1>5 DEF Inv, SlotsOK, ExExit, exLocks

LEMMA ReapInv == ASSUME Inv, NEW c \in ExCalls, ExReap(c) PROVE Inv'
  <1>1. ExTypeOK'
    BY DEF Inv, ExTypeOK, ExReap, exPlan, exLocks, exWatchers, exAttachment, exHarness
  <1>2. \A d \in ExCalls : CallOK(d)'
    BY DEF Inv, CallOK, ExOperation, ExReap, exPlan, exLocks, exWatchers
  <1>3. \A d \in ExCalls : SessionOK(d)'
    BY ExAssumption DEF Inv, ExTypeOK, SessionOK, ExOperation, ExAlive, ExWaited, ExReap,
    exPlan, exLocks, exWatchers
  <1>4. \A d \in ExCalls : ResourceOK(d)'
    BY DEF Inv, ResourceOK, Uses, ExAlive, ExWaited, ExReap, exPlan, exLocks, exWatchers
  <1>5. \A d \in ExCalls : LogOK(d)'
    BY DEF Inv, SessionOK, LogOK, ExReap, exWatchers, exHarness
  <1> QED  BY <1>1, <1>2, <1>3, <1>4, <1>5 DEF Inv, SlotsOK, ExReap, exLocks

LEMMA MonitorWatchesInv == ASSUME Inv, NEW c \in ExCalls, ExMonitorWatches(c) PROVE Inv'
  <1>1. ExTypeOK'
    BY DEF Inv, ExTypeOK, ExMonitorWatches, ExMonitorGo, ExKilled, exCallVars, exPlan,
       exLocks, exAttachment, exHarness
  <1>2. \A d \in ExCalls : CallOK(d)'
    BY DEF Inv, ExTypeOK, CallOK, ExOperation, ExMonitorWatches, ExMonitorGo, ExKilled,
       exCallVars, exPlan, exLocks
  <1>3. \A d \in ExCalls : SessionOK(d)'
    BY DEF Inv, ExTypeOK, SessionOK, ExOperation, ExAlive, ExWaited, ExMonitorWatches,
       ExMonitorGo, ExKilled, exCallVars, exPlan, exLocks
  <1>4. \A d \in ExCalls : ResourceOK(d)'
    BY DEF Inv, ExTypeOK, ResourceOK, Uses, ExAlive, ExWaited, ExMonitorWatches,
       ExMonitorGo, ExKilled, exCallVars, exPlan, exLocks
  <1>5. \A d \in ExCalls : LogOK(d)'
    BY DEF Inv, ExTypeOK, CallOK, LogOK, ExMonitorWatches, ExMonitorGo, exCallVars,
       exHarness
  <1> QED  BY <1>1, <1>2, <1>3, <1>4, <1>5 DEF Inv, SlotsOK, ExMonitorWatches, exLocks

LEMMA FinalizeInv == ASSUME Inv, NEW c \in ExCalls, ExFinalize(c) PROVE Inv'
  <1>1. ExTypeOK'
    BY DEF Inv, ExTypeOK, ExFinalize, ExMonitorGo, exCallVars, exPlan, exProcess,
       exAttachment, exHarness
  <1>2. SlotsOK'
    <2>1. exSlots' \subseteq exSlots /\ IsFiniteSet(exSlots) /\ Cardinality(exSlots) <= ExLimit
      BY DEF ExFinalize, Inv, SlotsOK
    <2>2. IsFiniteSet(exSlots') /\ Cardinality(exSlots') <= Cardinality(exSlots)
      BY <2>1, FS_Subset
    <2> QED  BY <2>1, <2>2, ExAssumption, FS_CardinalityType DEF SlotsOK
  <1>3. \A d \in ExCalls : CallOK(d)'
    BY DEF Inv, CallOK, ExOperation, ExFinalize, ExMonitorGo, exCallVars, exPlan, exProcess
  <1>4. \A d \in ExCalls : SessionOK(d)'
    BY ExAssumption DEF Inv, ExTypeOK, SessionOK, ExOperation, ExAlive, ExWaited,
    ExFinalize, ExMonitorGo, exCallVars, exPlan, exProcess
  <1>5. \A d \in ExCalls : ResourceOK(d)'
    BY DEF Inv, ResourceOK, Uses, ExAlive, ExWaited, ExFinalize, ExMonitorGo, exCallVars,
       exPlan, exProcess
  <1>6. \A d \in ExCalls : LogOK(d)'
    BY DEF Inv, LogOK, ExFinalize, ExMonitorGo, exCallVars, exHarness
  <1> QED  BY <1>1, <1>2, <1>3, <1>4, <1>5, <1>6 DEF Inv

LEMMA MonitorRecordsInv == ASSUME Inv, NEW c \in ExCalls, ExMonitorRecords(c) PROVE Inv'
  <1>1. ExTypeOK'
    BY DEF Inv, ExTypeOK, ExMonitorRecords, ExRecord, ExResourceFreed, ExMonitorGo,
       exCallVars, exPlan, exProcess, exAttachment
  <1>2. \A d \in ExCalls : CallOK(d)'
    BY DEF Inv, CallOK, ExOperation, ExMonitorRecords, ExMonitorGo, exCallVars, exPlan,
       exProcess
  <1>3. \A d \in ExCalls : SessionOK(d)'
    BY DEF Inv, SessionOK, ExOperation, ExAlive, ExWaited, ExMonitorRecords, ExMonitorGo,
       exCallVars, exPlan, exProcess
  <1>4. \A d \in ExCalls : ResourceOK(d)'
    BY DEF Inv, CallOK, SessionOK, ResourceOK, Uses, ExAlive, ExWaited, ExMonitorRecords,
       ExResourceFreed, ExMonitorGo, exCallVars, exPlan, exProcess
  <1>5. \A d \in ExCalls : LogOK(d)'
    BY DEF Inv, ExTypeOK, LogOK, ExMonitorRecords, ExRecord, ExMonitorGo, exCallVars
  <1> QED  BY <1>1, <1>2, <1>3, <1>4, <1>5 DEF Inv, SlotsOK, ExMonitorRecords

\* The timer of a detached session.
LEMMA TimerFiresInv == ASSUME Inv, NEW c \in ExCalls, ExTimerFires(c) PROVE Inv'
  <1>1. ExTypeOK'
    BY DEF Inv, ExTypeOK, ExTimerFires, ExStillDetached, ExWaited, ExKilled, exCallVars,
       exPlan, exLocks, exAttachment, exHarness
  <1>2. \A d \in ExCalls : CallOK(d)'
    BY DEF Inv, ExTypeOK, CallOK, ExOperation, ExTimerFires, ExKilled, exCallVars, exPlan,
       exLocks
  <1>3. \A d \in ExCalls : SessionOK(d)'
    BY DEF Inv, ExTypeOK, SessionOK, ExOperation, ExAlive, ExTimerFires, ExWaited,
       ExKilled, exCallVars, exPlan, exLocks
  <1>4. \A d \in ExCalls : ResourceOK(d)'
    BY DEF Inv, ExTypeOK, ResourceOK, Uses, ExAlive, ExTimerFires, ExWaited, ExKilled,
       exCallVars, exPlan, exLocks
  <1>5. \A d \in ExCalls : LogOK(d)'
    BY DEF Inv, LogOK, ExTimerFires, exCallVars, exHarness
  <1> QED  BY <1>1, <1>2, <1>3, <1>4, <1>5 DEF Inv, SlotsOK, ExTimerFires, exLocks

LEMMA TimerKillsInv == ASSUME Inv, NEW c \in ExCalls, ExTimerKills(c) PROVE Inv'
  <1>1. ExTypeOK'
    BY DEF Inv, ExTypeOK, ExTimerKills, ExKilled, exCallVars, exPlan, exLocks,
       exAttachment, exHarness
  <1>2. \A d \in ExCalls : CallOK(d)'
    BY DEF Inv, CallOK, ExOperation, ExTimerKills, ExKilled, exCallVars, exPlan, exLocks
  <1>3. \A d \in ExCalls : SessionOK(d)'
    BY ExAssumption DEF Inv, SessionOK, ExOperation, ExAlive, ExWaited, ExTimerKills,
    ExKilled, exCallVars, exPlan, exLocks
  <1>4. \A d \in ExCalls : ResourceOK(d)'
    BY DEF Inv, ResourceOK, Uses, ExAlive, ExWaited, ExTimerKills, ExKilled, exCallVars,
       exPlan, exLocks
  <1>5. \A d \in ExCalls : LogOK(d)'
    BY DEF Inv, LogOK, ExTimerKills, exCallVars, exHarness
  <1> QED  BY <1>1, <1>2, <1>3, <1>4, <1>5 DEF Inv, SlotsOK, ExTimerKills, exLocks

-----------------------------------------------------------------------------
(* The invariant and the theorems                                          *)

LEMMA StepInv == Inv /\ [ExNext]_exVars => Inv'
  <1>1. ASSUME Inv, NEW c \in ExCalls, ExCall(c) PROVE Inv'
    BY <1>1, AdmitInv, TouchInv, RefreshInv, TakeResourceInv, TakeSlotInv, StartInv, WatchInv,
       ReturnInv, FailsInv, DropInv, DetachInv, KillInv, SignalInv, KillAndWaitInv,
       EvictInv, TrackInv, CheckInv
    DEF ExCall
  <1>2. ASSUME Inv, NEW c \in ExCalls, ExExit(c) \/ ExReap(c) \/ ExMonitorStep(c) \/ ExTimerStep(c)
        PROVE  Inv'
    BY <1>2, ExitInv, ReapInv, MonitorWatchesInv, FinalizeInv, MonitorRecordsInv, TimerFiresInv,
       TimerKillsInv
    DEF ExMonitorStep, ExTimerStep
  <1>3. ASSUME Inv, UNCHANGED exVars PROVE Inv'
    BY <1>3
    DEF exVars, exCallVars, exPlan, exLocks, exProcess, exWatchers, exAttachment, exHarness, Inv,
        ExTypeOK, SlotsOK, CallOK, SessionOK, ResourceOK, Uses, LogOK, ExOperation, ExAlive,
        ExWaited
  <1> QED  BY <1>1, <1>2, <1>3 DEF ExNext

LEMMA InvHolds == ExSpec => []Inv
  <1>1. ExInit => Inv
    <2> SUFFICES ASSUME ExInit PROVE Inv
      OBVIOUS
    <2>1. ExTypeOK
      <3>1. /\ exAuto \in BOOLEAN /\ exKind \in [ExCalls -> ExKinds]
            /\ exPc \in [ExCalls -> {"new"}] /\ exFound \in [ExCalls -> {ExNobody}]
            /\ exProc \in [ExCalls -> {"none"}] /\ exMonitor \in [ExCalls -> {"none"}]
            /\ exTimer \in [ExCalls -> {"none"}] /\ exChild \in [ExCalls -> {ExNobody}]
        BY DEF ExInit
      <3>2. /\ exGen \in [ExCalls -> Nat] /\ exDetached \in [ExCalls -> Nat]
            /\ exMark \in [ExCalls -> Nat] /\ exLog \in [ExCalls -> Nat]
            /\ exExited \in [ExCalls -> BOOLEAN] /\ exFinal \in [ExCalls -> BOOLEAN]
        BY DEF ExInit
      <3>3. /\ exOps \in [ExCalls -> SUBSET ExCalls] /\ exRecorded \in [ExCalls -> SUBSET ExCalls]
            /\ exUnlogged \subseteq ExCalls /\ exSlots \subseteq ExCalls
            /\ exResource \in ExCalls \cup {ExNobody}
            /\ exOpLock \in [{"run", "other"} -> {ExNobody}]
            /\ exIndex \in [{"run", "other"} -> {ExNobody}]
        BY DEF ExInit
      <3> QED  BY <3>1, <3>2, <3>3 DEF ExTypeOK
    <2>2. SlotsOK
      <3>1. exSlots = {} /\ IsFiniteSet({}) /\ Cardinality({}) = 0
        BY FS_EmptySet DEF ExInit
      <3> QED  BY <3>1, ExAssumption DEF SlotsOK
    <2>3. ASSUME NEW c \in ExCalls PROVE CallOK(c) /\ SessionOK(c) /\ ResourceOK(c) /\ LogOK(c)
      BY ExAssumption DEF ExInit, CallOK, SessionOK, ResourceOK, Uses, ExAlive, ExWaited, LogOK
    <2> QED  BY <2>1, <2>2, <2>3 DEF Inv
  <1> QED  BY <1>1, StepInv, PTL DEF ExSpec

\* For every set of calls and limit of slots, whichever calls are dropped, attach or kill
\* (admit_operation, the monitor, release_backend_lifetimes): at most one session of an
\* operation is unfinished, no process runs without an active slot, and a resource is
\* used by one process, unless the call of one was dropped before it had a monitor.
THEOREM OneProcess == ExSpec => []ExOneProcess
  <1>1. Inv => ExOneProcess
    <2> SUFFICES ASSUME Inv PROVE ExOneProcess
      OBVIOUS
    <2>1. Cardinality(exSlots) <= ExLimit /\ \A s \in ExCalls : ExAlive(s) => s \in exSlots
      BY DEF Inv, SlotsOK, SessionOK
    <2>2. ASSUME NEW s \in ExCalls, NEW r \in ExCalls, s # r, exKind[s] = "run", exKind[r] = "run",
                 ExAlive(s), ExAlive(r)
          PROVE  \E d \in {s, r} : ~ ExWaited(d) /\ exPc[d] = "end"
      BY <2>2 DEF Inv, ResourceOK, Uses
    <2>3. ASSUME NEW s \in ExCalls, NEW r \in ExCalls, s # r, exKind[s] = "run",
                 ExOperation(r) = "run", exProc[s] # "none", exProc[r] # "none"
          PROVE  exFinal[s] \/ exFinal[r]
      <3>1. ExOperation(s) = "run"
        BY <2>3 DEF ExOperation
      <3> QED  BY <2>3, <3>1 DEF Inv, SessionOK
    <2> QED  BY <2>1, <2>2, <2>3 DEF ExOneProcess
  <1> QED  BY <1>1, InvHolds, PTL

\* For every set of calls: the end of a call's operation is logged at most once, and has
\* been logged once the session's monitor is done, unless a write failed
\* (attach_harness_operation, record_harness_operation_finalization).
THEOREM LoggedOnce == ExSpec => []ExLoggedOnce
  <1>1. Inv => ExLoggedOnce
    BY DEF Inv, LogOK, ExLoggedOnce
  <1> QED  BY <1>1, InvHolds, PTL

\* For every set of calls: sessions, slots, locks and the operation log keep their types
\* (run_command, the monitor, the detached timer).
THEOREM WellTyped == ExSpec => []ExTypeOK
  <1>1. Inv => ExTypeOK
    BY DEF Inv
  <1> QED  BY <1>1, InvHolds, PTL
=============================================================================
