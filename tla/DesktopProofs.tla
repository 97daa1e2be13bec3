---------------------------- MODULE DesktopProofs ----------------------------
(***************************************************************************)
(* Theorems about four parts of the desktop that share no state: the       *)
(* runtime supervisor, the tools that change several files, the task       *)
(* sessions, and the tunnel client hub.  The names of each part carry the  *)
(* prefix of its module.                                                   *)
(***************************************************************************)
EXTENDS ClientHub, RuntimeSupervisor, PatchTransaction, HarnessTask, FiniteSetTheorems, TLAPS

(***************************************************************************)
(* The runtime supervisor: for every set of commands and every way in      *)
(* which they overlap, a listener that serves is the one that the running  *)
(* entry can stop, and is recorded as enabled in the end.                  *)
(***************************************************************************)

\* A command that has yet to set right what is recorded: a stop that has written
\* "disabled" and has yet to take the listener, or a start or restart that has started
\* one and has yet to write "enabled".
RtPending(c) ==
  \/ rtOp[c] = "stop" /\ rtPc[c] = "go"
  \/ rtOp[c] # "stop" /\ rtPc[c] = "persist"

\* What the code maintains between the two writes: the stop's comes first, so
\* RtDisabledIsQuiet alone is not kept by a step.
RtRecordInv ==
  ~ rtEnabled /\ ~ rtUnsaved /\ (\E c \in RtCommands : rtListener[c] = "serving")
    => \E c \in RtCommands : RtPending(c)

RtInv == RtTypeOK /\ RtNoOrphan /\ RtRecordInv

-----------------------------------------------------------------------------
(* The helpers                                                             *)

\* Telling a listener to stop changes no other, and leaves it serving nothing.
LEMMA RtTellFacts ==
  ASSUME NEW L \in [RtCommands -> {"unused", "serving", "told", "aborted", "draining", "ended"}],
         NEW t \in RtCommands \cup {RtNobody}
  PROVE  /\ RtTell(L, t) \in [RtCommands -> {"unused", "serving", "told", "aborted", "draining", "ended"}]
         /\ \A c \in RtCommands : RtTell(L, t)[c] = "serving" => L[c] = "serving" /\ c # t
  BY RtAssumption DEF RtTell

\* So does aborting it.
LEMMA RtAbortFacts ==
  ASSUME NEW L \in [RtCommands -> {"unused", "serving", "told", "aborted", "draining", "ended"}],
         NEW t \in RtCommands \cup {RtNobody}
  PROVE  /\ RtAbort(L, t) \in [RtCommands -> {"unused", "serving", "told", "aborted", "draining", "ended"}]
         /\ \A c \in RtCommands : RtAbort(L, t)[c] = "serving" => L[c] = "serving" /\ c # t
  BY RtAssumption DEF RtAbort

\* start, from a state whose serving listener the entry holds, leaves such a state: only
\* the new listener serves, or one that served before; without success nothing new does.
LEMMA RtStartFacts ==
  ASSUME RtTypeOK,
         NEW c \in RtCommands, NEW ok \in BOOLEAN,
         NEW found \in {"none", "starting", "running", "stopping", "error"},
         NEW L \in [RtCommands -> {"unused", "serving", "told", "aborted", "draining", "ended"}],
         RtStart(c, found, L, ok),
         \A d \in RtCommands : L[d] = "serving" => found = rtPhase /\ rtPhase = "running" /\ rtTask = d
  PROVE  /\ rtPhase' \in {"none", "starting", "running", "stopping", "error"}
         /\ rtTask' \in RtCommands \cup {RtNobody} /\ rtMissing' \in 0 .. 3
         /\ rtListener' \in [RtCommands -> {"unused", "serving", "told", "aborted", "draining", "ended"}]
         /\ RtNoOrphan'
         /\ ~ ok => \A d \in RtCommands : rtListener'[d] = "serving" => L[d] = "serving"
  <1>0. CASE rtListener' = L /\ UNCHANGED rtEntry
    BY <1>0 DEF RtTypeOK, RtNoOrphan, rtEntry
  <1>1. CASE found \in {"running", "starting", "stopping"}
    <2>1. CASE found = rtPhase \/ ~ (~ ok /\ RtEnter(found, RtNobody) /\ rtListener' = L)
      BY <1>0, <1>1, <2>1 DEF RtStart
    <2>2. CASE found # rtPhase /\ ~ ok /\ RtEnter(found, RtNobody) /\ rtListener' = L
      BY <2>2 DEF RtEnter, RtNoOrphan
    <2> QED  BY <2>1, <2>2
  <1>2. CASE found \in {"none", "error"}
    <2>1. \A d \in RtCommands : L[d] # "serving"
      BY <1>2
    <2>2. CASE rtListener' = L /\ \E p \in {"starting", "none", "error"} : RtEnter(p, RtNobody)
      BY <2>1, <2>2 DEF RtEnter, RtNoOrphan
    <2>3. CASE ok /\ RtEnter("running", c) /\ rtListener' = [L EXCEPT ![c] = "serving"]
      BY <2>1, <2>3 DEF RtEnter, RtNoOrphan
    <2>4. CASE ~ ok /\ rtListener' = L /\ (UNCHANGED rtEntry \/ RtEnter(found, RtNobody))
      BY <1>0, <1>2, <2>1, <2>4 DEF RtEnter, RtNoOrphan
    <2> QED  BY <1>2, <2>2, <2>3, <2>4 DEF RtStart
  <1> QED  BY <1>1, <1>2

\* A step after which no listener serves that did not serve before keeps what is
\* recorded, if it neither disables the service nor takes a pending command's turn.
LEMMA RtRecordKept ==
  ASSUME RtRecordInv,
         \A d \in RtCommands : rtListener'[d] = "serving" => rtListener[d] = "serving",
         UNCHANGED <<rtEnabled, rtUnsaved>>,
         \A d \in RtCommands : RtPending(d) => RtPending(d)'
  PROVE  RtRecordInv'
  BY DEF RtRecordInv

-----------------------------------------------------------------------------
(* The steps                                                               *)

\* The refresh of the entry keeps the invariant, whatever the port check said.
LEMMA RtRefreshFacts ==
  ASSUME RtTypeOK, RtNoOrphan, RtRefresh
  PROVE  /\ rtPhase' \in {"none", "starting", "running", "stopping", "error"}
         /\ rtTask' \in RtCommands \cup {RtNobody} /\ rtMissing' \in 0 .. 3
         /\ rtListener' \in [RtCommands -> {"unused", "serving", "told", "aborted", "draining", "ended"}]
         /\ RtNoOrphan'
         /\ \A d \in RtCommands : rtListener'[d] = "serving" => rtListener[d] = "serving"
  <1> PICK listening \in {FALSE, RtPortBusy}, old \in BOOLEAN :
        LET missing == IF listening THEN 0 ELSE IF rtMissing = 3 THEN 3 ELSE rtMissing + 1
            failed == missing = 3 /\ old
        IN /\ rtPhase = "running"
           /\ rtMissing' = missing
           /\ rtPhase' = IF failed THEN "error" ELSE "running"
           /\ rtTask' = IF failed THEN RtNobody ELSE rtTask
           /\ rtListener' = IF failed THEN RtAbort(rtListener, rtTask) ELSE rtListener
    BY DEF RtRefresh
  <1> DEFINE missing == IF listening THEN 0 ELSE IF rtMissing = 3 THEN 3 ELSE rtMissing + 1
             failed == missing = 3 /\ old
  <1>1. missing \in 0 .. 3 /\ rtMissing' = missing
    BY DEF RtTypeOK
  <1>2. CASE failed
    <2>1. rtPhase' = "error" /\ rtTask' = RtNobody /\ rtListener' = RtAbort(rtListener, rtTask)
      BY <1>2
    <2>2. /\ rtListener' \in [RtCommands -> {"unused", "serving", "told", "aborted", "draining", "ended"}]
          /\ \A c \in RtCommands : rtListener'[c] = "serving" => rtListener[c] = "serving" /\ c # rtTask
      BY <2>1, RtAbortFacts DEF RtTypeOK
    <2> QED  BY <1>1, <2>1, <2>2 DEF RtNoOrphan
  <1>3. CASE ~ failed
    <2>1. rtPhase' = "running" /\ rtTask' = rtTask /\ rtListener' = rtListener
      BY <1>3
    <2> QED  BY <1>1, <2>1 DEF RtNoOrphan, RtTypeOK
  <1> QED  BY <1>2, <1>3

LEMMA RtStepInv == RtInv /\ [RtNext]_rtVars => RtInv'
  <1> SUFFICES ASSUME RtInv, [RtNext]_rtVars PROVE RtInv'
    OBVIOUS
  <1> USE DEF RtInv
  <1>1. ASSUME NEW c \in RtCommands, RtBegin(c) PROVE RtInv'
    <2>1. RtTypeOK' /\ RtNoOrphan'
      BY <1>1 DEF RtBegin, RtGo, RtTypeOK, RtNoOrphan, rtEntry
    <2>2. RtRecordInv'
      BY <1>1, RtRecordKept DEF RtBegin, RtGo, RtTypeOK, RtPending, rtEntry
    <2> QED  BY <2>1, <2>2
  <1>2. ASSUME NEW c \in RtCommands, RtPortUnavailable(c) PROVE RtInv'
    <2>1. RtTypeOK' /\ RtNoOrphan'
      BY <1>2 DEF RtPortUnavailable, RtGo, RtTypeOK, RtNoOrphan, rtEntry
    <2>2. RtRecordInv'
      BY <1>2, RtRecordKept DEF RtPortUnavailable, RtGo, RtTypeOK, RtPending, rtEntry
    <2> QED  BY <2>1, <2>2
  <1>3. ASSUME NEW c \in RtCommands, RtDoStart(c) PROVE RtInv'
    <2> PICK ok \in BOOLEAN : RtStart(c, rtPhase, rtListener, ok) /\ RtGo(c, IF ok THEN "persist" ELSE "end")
      BY <1>3 DEF RtDoStart
    <2>1. /\ rtPhase' \in {"none", "starting", "running", "stopping", "error"}
          /\ rtTask' \in RtCommands \cup {RtNobody} /\ rtMissing' \in 0 .. 3
          /\ rtListener' \in [RtCommands -> {"unused", "serving", "told", "aborted", "draining", "ended"}]
          /\ RtNoOrphan'
          /\ ~ ok => \A d \in RtCommands : rtListener'[d] = "serving" => rtListener[d] = "serving"
      <3>1. rtPhase \in {"none", "starting", "running", "stopping", "error"}
        BY DEF RtTypeOK
      <3>2. rtListener \in [RtCommands -> {"unused", "serving", "told", "aborted", "draining", "ended"}]
        BY DEF RtTypeOK
      <3>3. \A d \in RtCommands : rtListener[d] = "serving" => rtPhase = "running" /\ rtTask = d
        BY DEF RtNoOrphan
      <3> QED  BY <3>1, <3>2, <3>3, RtStartFacts
    <2>2. RtTypeOK'
      BY <1>3, <2>1 DEF RtDoStart, RtGo, RtTypeOK
    <2>3. RtRecordInv'
      <3>1. CASE ok
        <4>1. RtPending(c)'
          BY <1>3, <3>1 DEF RtDoStart, RtGo, RtTypeOK, RtPending
        <4> QED  BY <4>1 DEF RtRecordInv
      <3>2. CASE ~ ok
        BY <1>3, <2>1, <3>2, RtRecordKept DEF RtDoStart, RtGo, RtTypeOK, RtPending
      <3> QED  BY <3>1, <3>2
    <2> QED  BY <2>1, <2>2, <2>3
  <1>4. ASSUME NEW c \in RtCommands, RtPersist(c) PROVE RtInv'
    <2>1. RtTypeOK' /\ RtNoOrphan'
      BY <1>4 DEF RtPersist, RtGo, RtAfterPersist, RtTypeOK, RtNoOrphan, rtEntry
    <2>2. CASE rtUnsaved' = TRUE
      BY <2>1, <2>2 DEF RtRecordInv
    <2>3. CASE rtOp[c] # "stop" /\ rtEnabled' = (rtOp[c] # "stop")
      BY <2>1, <2>3 DEF RtRecordInv
    <2>4. CASE rtOp[c] = "stop" /\ RtGo(c, RtAfterPersist(c))
      <3>1. RtPending(c)'
        BY <1>4, <2>4 DEF RtPersist, RtGo, RtAfterPersist, RtTypeOK, RtPending
      <3> QED  BY <2>1, <3>1 DEF RtRecordInv
    <2> QED  BY <1>4, <2>1, <2>2, <2>3, <2>4 DEF RtPersist
  <1>5. ASSUME NEW c \in RtCommands, RtBeginStop(c) PROVE RtInv'
    <2>1. /\ rtListener' \in [RtCommands -> {"unused", "serving", "told", "aborted", "draining", "ended"}]
          /\ \A d \in RtCommands : rtListener'[d] = "serving" => rtListener[d] = "serving" /\ d # rtTask
      BY <1>5, RtTellFacts DEF RtBeginStop, RtTypeOK
    <2>2. \A d \in RtCommands : rtListener'[d] # "serving"
      BY <2>1 DEF RtNoOrphan
    <2>3. RtTypeOK'
      BY <1>5, <2>1 DEF RtBeginStop, RtGo, RtTypeOK
    <2> QED  BY <2>2, <2>3 DEF RtNoOrphan, RtRecordInv
  <1>6. ASSUME NEW c \in RtCommands, RtAwait(c) PROVE RtInv'
    <2>1. /\ rtListener' \in [RtCommands -> {"unused", "serving", "told", "aborted", "draining", "ended"}]
          /\ \A d \in RtCommands : rtListener'[d] = "serving" => rtListener[d] = "serving"
      <3>1. CASE UNCHANGED rtListener
        BY <3>1 DEF RtTypeOK
      <3>2. CASE rtListener' = RtAbort(rtListener, rtHandle[c])
        <4>1. rtHandle[c] \in RtCommands \cup {RtNobody}
          BY DEF RtTypeOK
        <4> QED  BY <3>2, <4>1, RtAbortFacts DEF RtTypeOK
      <3> QED  BY <1>6, <3>1, <3>2 DEF RtAwait
    <2>2. RtTypeOK'
      BY <1>6, <2>1 DEF RtAwait, RtGo, RtTypeOK, rtEntry
    <2>3. RtNoOrphan'
      BY <1>6, <2>1 DEF RtAwait, RtNoOrphan, rtEntry
    <2>4. \A d \in RtCommands : RtPending(d) => RtPending(d)'
      BY <1>6 DEF RtAwait, RtGo, RtTypeOK, RtPending
    <2>5. RtRecordInv'
      BY <1>6, <2>1, <2>4, RtRecordKept DEF RtAwait
    <2> QED  BY <2>2, <2>3, <2>5
  <1>7. ASSUME NEW c \in RtCommands, RtFinishStop(c) PROVE RtInv'
    <2>1. /\ rtListener' \in [RtCommands -> {"unused", "serving", "told", "aborted", "draining", "ended"}]
          /\ \A d \in RtCommands : rtListener'[d] = "serving" => rtListener[d] = "serving" /\ d # rtTask
      BY <1>7, RtTellFacts DEF RtFinishStop, RtTypeOK
    <2>2. \A d \in RtCommands : rtListener'[d] # "serving"
      BY <2>1 DEF RtNoOrphan
    <2>3. RtTypeOK'
      <3>1. /\ rtPhase' = "none" /\ rtTask' = RtNobody /\ rtMissing' = 0
            /\ rtPc' = [rtPc EXCEPT ![c] = "refresh"]
            /\ UNCHANGED <<rtOp, rtHandle, rtLock, rtOther, rtEnabled, rtUnsaved>>
        BY <1>7 DEF RtFinishStop, RtGo, RtEnter
      <3> QED  BY <2>1, <3>1 DEF RtTypeOK
    <2> QED  BY <2>2, <2>3 DEF RtNoOrphan, RtRecordInv
  <1>8. ASSUME NEW c \in RtCommands, RtRestart(c) PROVE RtInv'
    <2> DEFINE L == RtTell(rtListener, rtTask)
    <2> PICK ok \in BOOLEAN : RtStart(c, "none", L, ok) /\ RtGo(c, IF ok THEN "persist" ELSE "end")
      BY <1>8 DEF RtRestart
    <2>1. /\ L \in [RtCommands -> {"unused", "serving", "told", "aborted", "draining", "ended"}]
          /\ \A d \in RtCommands : L[d] = "serving" => rtListener[d] = "serving" /\ d # rtTask
      BY RtTellFacts DEF RtTypeOK
    <2>2. \A d \in RtCommands : L[d] # "serving"
      BY <2>1 DEF RtNoOrphan
    <2> HIDE DEF L
    <2>3. /\ rtPhase' \in {"none", "starting", "running", "stopping", "error"}
          /\ rtTask' \in RtCommands \cup {RtNobody} /\ rtMissing' \in 0 .. 3
          /\ rtListener' \in [RtCommands -> {"unused", "serving", "told", "aborted", "draining", "ended"}]
          /\ RtNoOrphan'
          /\ ~ ok => \A d \in RtCommands : rtListener'[d] = "serving" => L[d] = "serving"
      BY <2>1, <2>2, RtStartFacts
    <2>4. RtTypeOK'
      BY <1>8, <2>3 DEF RtRestart, RtGo, RtTypeOK
    <2>5. RtRecordInv'
      <3>1. CASE ok
        <4>1. RtPending(c)'
          BY <1>8, <3>1 DEF RtRestart, RtGo, RtTypeOK, RtPending
        <4> QED  BY <4>1 DEF RtRecordInv
      <3>2. CASE ~ ok
        BY <2>2, <2>3, <3>2 DEF RtRecordInv
      <3> QED  BY <3>1, <3>2
    <2> QED  BY <2>3, <2>4, <2>5
  <1>9. CASE RtStatus
    <2>1. /\ rtPhase' \in {"none", "starting", "running", "stopping", "error"}
          /\ rtTask' \in RtCommands \cup {RtNobody} /\ rtMissing' \in 0 .. 3
          /\ rtListener' \in [RtCommands -> {"unused", "serving", "told", "aborted", "draining", "ended"}]
          /\ RtNoOrphan'
          /\ \A d \in RtCommands : rtListener'[d] = "serving" => rtListener[d] = "serving"
      BY <1>9, RtRefreshFacts DEF RtStatus
    <2>2. RtTypeOK'
      BY <1>9, <2>1 DEF RtStatus, RtTypeOK
    <2>3. RtRecordInv'
      BY <1>9, <2>1, RtRecordKept DEF RtStatus, RtPending
    <2> QED  BY <2>1, <2>2, <2>3
  <1>10. ASSUME NEW c \in RtCommands, RtEnd(c) PROVE RtInv'
    <2>1. /\ rtPhase' \in {"none", "starting", "running", "stopping", "error"}
          /\ rtTask' \in RtCommands \cup {RtNobody} /\ rtMissing' \in 0 .. 3
          /\ rtListener' \in [RtCommands -> {"unused", "serving", "told", "aborted", "draining", "ended"}]
          /\ RtNoOrphan'
          /\ \A d \in RtCommands : rtListener'[d] = "serving" => rtListener[d] = "serving"
      <3>1. CASE RtRefresh
        BY <3>1, RtRefreshFacts
      <3>2. CASE UNCHANGED <<rtEntry, rtListener>>
        BY <3>2 DEF RtTypeOK, RtNoOrphan, rtEntry
      <3> QED  BY <1>10, <3>1, <3>2 DEF RtEnd
    <2>2. RtTypeOK'
      BY <1>10, <2>1 DEF RtEnd, RtGo, RtTypeOK
    <2>3. RtRecordInv'
      BY <1>10, <2>1, RtRecordKept DEF RtEnd, RtGo, RtTypeOK, RtPending
    <2> QED  BY <2>1, <2>2, <2>3
  <1>11. ASSUME NEW c \in RtCommands, NEW from \in {"told", "aborted", "draining", "serving"},
                NEW to \in {"draining", "ended"}, RtMove(c, from, to)
         PROVE  RtInv'
    <2>1. \A d \in RtCommands : rtListener'[d] = "serving" => rtListener[d] = "serving"
      BY <1>11 DEF RtMove, RtTypeOK
    <2>2. RtTypeOK'
      BY <1>11 DEF RtMove, RtTypeOK, rtEntry
    <2>3. RtNoOrphan'
      BY <1>11, <2>1 DEF RtMove, RtNoOrphan, rtEntry
    <2>4. RtRecordInv'
      BY <1>11, <2>1, RtRecordKept DEF RtMove, RtPending
    <2> QED  BY <2>2, <2>3, <2>4
  <1>12. CASE RtOtherProgram
    <2>1. RtTypeOK' /\ RtNoOrphan'
      BY <1>12 DEF RtOtherProgram, RtTypeOK, RtNoOrphan, rtEntry
    <2>2. RtRecordInv'
      BY <1>12, RtRecordKept DEF RtOtherProgram, RtPending
    <2> QED  BY <2>1, <2>2
  <1>13. CASE UNCHANGED rtVars
    BY <1>13 DEF rtVars, rtEntry, RtTypeOK, RtNoOrphan, RtRecordInv, RtPending
  <1> QED
    BY <1>1, <1>2, <1>3, <1>4, <1>5, <1>6, <1>7, <1>8, <1>9, <1>10, <1>11, <1>12, <1>13
    DEF RtNext, RtStep, RtUnbind, RtDrain, RtDies

-----------------------------------------------------------------------------
(* The theorems                                                            *)

LEMMA RtInvHolds == RtSpec => []RtInv
  <1>1. RtInit => RtInv
    <2> SUFFICES ASSUME RtInit PROVE RtInv
      OBVIOUS
    <2>1. RtTypeOK
      <3>1. /\ rtPc \in [RtCommands -> {"new", "go", "persist", "wait", "finish", "refresh", "end"}]
            /\ rtHandle \in [RtCommands -> RtCommands \cup {RtNobody}]
        BY DEF RtInit
      <3>2. rtListener \in [RtCommands -> {"unused", "serving", "told", "aborted", "draining", "ended"}]
        BY DEF RtInit
      <3>3. rtMissing \in 0 .. 3
        BY DEF RtInit
      <3> QED  BY <3>1, <3>2, <3>3 DEF RtInit, RtTypeOK
    <2>2. \A c \in RtCommands : rtListener[c] # "serving"
      BY DEF RtInit
    <2> QED  BY <2>1, <2>2 DEF RtInv, RtNoOrphan, RtRecordInv
  <1> QED  BY <1>1, RtStepInv, PTL DEF RtSpec

\* Whatever commands overlap (start, stop and restart of the supervisor), every listener
\* that serves is held by the running entry, and is recorded as enabled once all commands
\* have ended, unless a save failed.
THEOREM ServingIsRecorded == RtSpec => []RtServingIsRecorded
  <1>1. RtInv => RtServingIsRecorded
    BY DEF RtInv, RtRecordInv, RtServingIsRecorded, RtDisabledIsQuiet, RtTypeOK, RtPending
  <1> QED  BY <1>1, RtInvHolds, PTL

(***************************************************************************)
(* The tools that change several files: for any number of files and of     *)
(* foreign changes, nothing that was written before the tool verified a    *)
(* file is overwritten, and the tool applies whole or restores.            *)
(***************************************************************************)

PatchLoops == {"read", "verify", "stage", "commit", "mkdir", "restore", "end"}

PatchShape ==
  /\ patchPc \in PatchLoops /\ patchTodo \subseteq PatchFiles /\ patchEdits \in Nat
  /\ patchDisk = [f \in PatchFiles |-> patchDisk[f]]
  /\ patchBackup = [f \in PatchFiles |-> patchBackup[f]]
  /\ patchBase \in [PatchFiles -> PatchContents \cup {"unread"}]
  /\ patchPc \in {"read", "verify"} =>
       \A f \in PatchFiles : patchDisk[f] \in PatchContents /\ patchBackup[f] = "none"
  /\ patchPc # "end" => patchOutcome = "none"
  /\ patchKind = "format" => patchSwap = {} /\ patchPc \notin {"stage", "mkdir"}

\* What was kept of a file, to be written back: what was read, or it is known to be lost.
PatchKept(f) == patchBackup[f] = patchBase[f] \/ (patchBackup[f] = "empty" /\ f \in patchHurt)

\* What an error leaves of a file: what was read; if the tool returned from within a loop
\* perhaps what it has put there; or it is known to be lost.
PatchUndone(f) ==
  \/ patchDisk[f] = patchBase[f] \/ f \in patchHurt
  \/ patchDisk[f] = PatchTarget(f) /\ patchTodo # {}

\* A file that nobody else has changed since it was verified, at each place of the tool.
PatchFileOK(f) ==
  /\ patchPc = "verify" /\ f \notin patchTodo => patchDisk[f] = patchBase[f]
  /\ patchPc = "stage" =>
       /\ patchDisk[f] = patchBase[f]
       /\ IF f \in patchTodo THEN patchBackup[f] = "none" ELSE PatchKept(f)
  /\ patchPc = "commit" =>
       /\ IF f \in patchTodo
            THEN patchDisk[f] = patchBase[f] \/ (patchDisk[f] = "gone" /\ patchSwap = {f})
            ELSE patchDisk[f] = PatchTarget(f)
       /\ patchKind # "format" => PatchKept(f)
  /\ patchPc = "mkdir" => patchDisk[f] = PatchTarget(f) /\ PatchKept(f)
  /\ patchPc = "restore" =>
       /\ patchDisk[f] \in {patchBase[f], PatchTarget(f), "torn", "gone"}
       /\ IF f \in patchTodo THEN PatchKept(f) ELSE patchDisk[f] = patchBase[f] \/ f \in patchHurt
  /\ patchPc = "end" =>
       /\ patchOutcome = "applied" => patchDisk[f] = PatchTarget(f)
       /\ patchOutcome = "failed" => PatchUndone(f)

PatchInv == PatchShape /\ \A f \in PatchFiles \ patchLate : PatchFileOK(f)

-----------------------------------------------------------------------------
(* Steps that change no file                                               *)

\* The step to the next file of a loop.
LEMMA PatchLoopFacts ==
  ASSUME PatchShape, NEW f \in PatchFiles, NEW at \in PatchLoops, NEW next \in PatchLoops \ {at}, PatchLoop(at, f, next)
  PROVE  /\ patchPc = at /\ f \in patchTodo
         /\ patchPc' \in PatchLoops /\ patchTodo' \subseteq PatchFiles
         /\ \/ patchPc' = at /\ patchTodo' = patchTodo \ {f}
            \/ patchPc' = next /\ patchTodo' = PatchFiles /\ patchTodo = {f}
  BY DEF PatchLoop, PatchShape

\* An error ends the tool; one that is reported as such leaves every file undone or hurt.
LEMMA PatchReturnInv ==
  ASSUME PatchInv, NEW outcome \in {"refused", "failed", "crashed"}, PatchReturn(outcome),
         outcome = "failed" => \A f \in PatchFiles \ patchLate : PatchUndone(f)
  PROVE  PatchInv'
  <1>1. PatchShape'
    BY DEF PatchInv, PatchShape, PatchLoops, PatchReturn, PatchAnswer, patchFixed, patchEnv
  <1>2. ASSUME NEW f \in PatchFiles \ patchLate PROVE PatchFileOK(f)'
    BY DEF PatchFileOK, PatchUndone, PatchTarget, PatchReturn, PatchAnswer, patchFixed, patchEnv
  <1> QED  BY <1>1, <1>2 DEF PatchInv, PatchReturn, patchEnv

LEMMA PatchReadInv == ASSUME PatchInv, NEW f \in PatchFiles, PatchRead(f) PROVE PatchInv'
  <1>1. /\ patchPc = "read" /\ patchPc' \in {"read", "verify"} /\ patchTodo' \subseteq PatchFiles
        /\ patchPc' = "verify" => patchTodo' = PatchFiles
        /\ patchBase' = [patchBase EXCEPT ![f] = patchDisk[f]]
        /\ UNCHANGED <<patchFixed, patchDisk, patchBackup, patchSwap, patchOutcome, patchHurt, patchEnv>>
    BY PatchLoopFacts DEF PatchInv, PatchRead, PatchLoops
  <1>2. PatchShape'
    BY <1>1 DEF PatchInv, PatchShape, PatchLoops, patchFixed, patchEnv
  <1>3. ASSUME NEW g \in PatchFiles PROVE PatchFileOK(g)'
    BY <1>1 DEF PatchFileOK
  <1> QED  BY <1>2, <1>3 DEF PatchInv

LEMMA PatchVerifyInv == ASSUME PatchInv, NEW f \in PatchFiles, PatchVerify(f) PROVE PatchInv'
  <1>1. /\ patchPc = "verify" /\ patchTodo' \subseteq PatchFiles
        /\ \/ patchPc' = "verify" /\ patchTodo' = patchTodo \ {f}
           \/ patchPc' = PatchAfterVerify /\ patchTodo' = PatchFiles /\ patchTodo = {f}
        /\ patchDisk[f] = patchBase[f]
        /\ UNCHANGED <<patchFixed, patchDisk, patchBase, patchBackup, patchSwap, patchOutcome, patchHurt, patchEnv>>
    BY PatchLoopFacts DEF PatchInv, PatchVerify, PatchAfterVerify, PatchLoops
  <1>2. PatchShape'
    BY <1>1 DEF PatchInv, PatchShape, PatchLoops, PatchAfterVerify, patchFixed, patchEnv
  <1>3. ASSUME NEW g \in PatchFiles \ patchLate PROVE PatchFileOK(g)'
    <2>1. PatchFileOK(g) /\ patchBackup[g] = "none"
      BY <1>1 DEF PatchInv, PatchShape
    <2>2. CASE patchPc' = "verify" /\ patchTodo' = patchTodo \ {f}
      BY <1>1, <2>1, <2>2 DEF PatchFileOK
    <2>3. CASE patchPc' = PatchAfterVerify /\ patchTodo' = PatchFiles /\ patchTodo = {f}
      BY <1>1, <2>1, <2>3 DEF PatchFileOK, PatchAfterVerify, patchFixed
    <2> QED  BY <1>1, <2>2, <2>3
  <1> QED  BY <1>1, <1>2, <1>3 DEF PatchInv, patchEnv

LEMMA PatchStageInv == ASSUME PatchInv, NEW f \in PatchFiles, PatchStage(f) PROVE PatchInv'
  <1> PICK kept \in PatchBackups(f), ok \in BOOLEAN :
        /\ patchBackup' = [patchBackup EXCEPT ![f] = kept]
        /\ patchHurt' = IF kept = "empty" THEN patchHurt \cup {f} ELSE patchHurt
        /\ IF ok
             THEN PatchLoop("stage", f, "commit")
             ELSE /\ patchPc = "stage" /\ f \in patchTodo
                  /\ patchPc' = "restore"
                  /\ patchTodo' = {g \in PatchFiles : patchBackup'[g] # "none"}
        /\ UNCHANGED <<patchFixed, patchDisk, patchBase, patchSwap, patchOutcome, patchEnv>>
    BY DEF PatchStage
  <1>1. /\ patchPc = "stage" /\ f \in patchTodo /\ patchPc' \in {"stage", "commit", "restore"}
        /\ patchTodo' \subseteq PatchFiles
        /\ \/ patchPc' = "stage" /\ patchTodo' = patchTodo \ {f}
           \/ patchPc' = "commit" /\ patchTodo' = PatchFiles /\ patchTodo = {f}
           \/ patchPc' = "restore" /\ patchTodo' = {g \in PatchFiles : patchBackup'[g] # "none"}
    BY PatchLoopFacts DEF PatchInv, PatchLoops
  <1>2. kept = patchDisk[f] \/ kept = "empty"
    BY DEF PatchBackups
  <1>3. /\ patchBackup' = [g \in PatchFiles |-> patchBackup'[g]]
        /\ patchBackup'[f] = kept /\ \A g \in PatchFiles \ {f} : patchBackup'[g] = patchBackup[g]
    BY DEF PatchInv, PatchShape
  <1>4. PatchShape'
    BY <1>1, <1>3 DEF PatchInv, PatchShape, PatchLoops, patchFixed, patchEnv
  <1>5. ASSUME NEW g \in PatchFiles \ patchLate PROVE PatchFileOK(g)'
    <2>1. /\ patchDisk[g] = patchBase[g] /\ patchBase[g] # "none"
          /\ IF g \in patchTodo THEN patchBackup[g] = "none" ELSE PatchKept(g)
      <3>1. PatchFileOK(g) /\ patchBase[g] \in PatchContents \cup {"unread"}
        BY DEF PatchInv, PatchShape
      <3> QED  BY <1>1, <3>1 DEF PatchFileOK, PatchContents
    <2>2. g = f \/ g \notin patchTodo => PatchKept(g)'
      BY <1>2, <1>3, <2>1 DEF PatchKept
    <2>3. g # f /\ g \in patchTodo => patchBackup'[g] = "none"
      BY <1>3, <2>1
    <2>4. CASE patchPc' = "stage" /\ patchTodo' = patchTodo \ {f}
      BY <1>1, <2>1, <2>2, <2>3, <2>4 DEF PatchFileOK
    <2>5. CASE patchPc' = "commit" /\ patchTodo' = PatchFiles /\ patchTodo = {f}
      BY <1>1, <2>1, <2>2, <2>3, <2>5 DEF PatchFileOK
    <2>6. CASE patchPc' = "restore" /\ patchTodo' = {h \in PatchFiles : patchBackup'[h] # "none"}
      BY <1>1, <2>1, <2>2, <2>3, <2>6 DEF PatchFileOK
    <2> QED  BY <1>1, <2>4, <2>5, <2>6
  <1> QED  BY <1>4, <1>5 DEF PatchInv, patchEnv

-----------------------------------------------------------------------------
(* Steps that change a file                                                *)

\* What such a step says of a file, given what it is allowed to replace.
PatchReplaceable(f) ==
  \/ patchDisk[f] \in {patchBase[f], PatchTarget(f), "torn"}
  \/ patchDisk[f] = "gone" /\ (patchSwap = {f} \/ patchPc = "restore")

\* While files are replaced, one that nobody else changed may be.
LEMMA PatchCommitMayReplace ==
  ASSUME PatchInv, NEW f \in patchTodo \ patchLate, patchPc = "commit"
  PROVE  PatchReplaceable(f)
  BY DEF PatchInv, PatchShape, PatchFileOK, PatchReplaceable

\* The last step of a file's replacement.
LEMMA PatchCompleteInv ==
  ASSUME PatchInv, NEW f \in PatchFiles, PatchComplete(f), patchSwap \subseteq {f}
  PROVE  PatchInv'
  <1>1. /\ patchPc = "commit" /\ f \in patchTodo /\ patchTodo' \subseteq PatchFiles
        /\ \/ patchPc' = "commit" /\ patchTodo' = patchTodo \ {f}
           \/ patchPc' = PatchDone /\ patchTodo' = PatchFiles /\ patchTodo = {f}
        /\ patchDisk' = [patchDisk EXCEPT ![f] = PatchTarget(f)]
        /\ patchSwap' = {}
        /\ patchOutcome' = IF patchPc' = "end" THEN "applied" ELSE "none"
        /\ UNCHANGED <<patchFixed, patchBase, patchBackup, patchHurt, patchEnv>>
    BY PatchLoopFacts DEF PatchInv, PatchComplete, PatchDone, PatchLoops
  <1>2. /\ patchDisk' = [g \in PatchFiles |-> patchDisk'[g]]
        /\ patchDisk'[f] = PatchTarget(f) /\ \A g \in PatchFiles \ {f} : patchDisk'[g] = patchDisk[g]
    BY <1>1 DEF PatchInv, PatchShape
  <1>3. PatchShape'
    BY <1>1, <1>2 DEF PatchInv, PatchShape, PatchLoops, PatchDone, patchFixed, patchEnv
  <1>4. ASSUME NEW g \in PatchFiles \ patchLate PROVE PatchFileOK(g)'
    <2>1. /\ IF g \in patchTodo
               THEN patchDisk[g] = patchBase[g] \/ (patchDisk[g] = "gone" /\ patchSwap = {g})
               ELSE patchDisk[g] = PatchTarget(g)
          /\ patchKind # "format" => PatchKept(g)
      BY <1>1 DEF PatchInv, PatchFileOK
    <2>2. PatchTarget(g)' = PatchTarget(g) /\ (PatchKept(g)' <=> PatchKept(g)) /\ patchKind' = patchKind
      BY <1>1 DEF PatchTarget, PatchKept, patchFixed
    <2>3. /\ g # f /\ g \in patchTodo => patchDisk'[g] = patchBase'[g]
          /\ g = f \/ g \notin patchTodo => patchDisk'[g] = PatchTarget(g)
      BY <1>1, <1>2, <2>1
    <2>4. CASE patchPc' = "commit" /\ patchTodo' = patchTodo \ {f}
      BY <2>1, <2>2, <2>3, <2>4 DEF PatchFileOK
    <2>5. CASE patchPc' = PatchDone /\ patchTodo' = PatchFiles /\ patchTodo = {f}
      BY <1>1, <2>1, <2>2, <2>3, <2>5 DEF PatchFileOK, PatchDone
    <2> QED  BY <1>1, <2>4, <2>5
  <1> QED  BY <1>1, <1>3, <1>4 DEF PatchInv, patchEnv

LEMMA PatchRemoveFirstInv == ASSUME PatchInv, NEW f \in PatchFiles, PatchRemoveFirst(f) PROVE PatchInv'
  <1>1. /\ patchKind # "format" /\ patchPc = "commit" /\ f \in patchTodo /\ patchSwap = {}
        /\ patchDisk' = [patchDisk EXCEPT ![f] = "gone"]
        /\ patchSwap' = {f}
        /\ UNCHANGED <<patchFixed, patchPc, patchTodo, patchBase, patchBackup, patchOutcome, patchHurt, patchEnv>>
    BY DEF PatchRemoveFirst, PatchMustRemove
  <1>2. /\ patchDisk' = [g \in PatchFiles |-> patchDisk'[g]]
        /\ patchDisk'[f] = "gone" /\ \A g \in PatchFiles \ {f} : patchDisk'[g] = patchDisk[g]
    BY <1>1 DEF PatchInv, PatchShape
  <1>3. PatchShape'
    BY <1>1, <1>2 DEF PatchInv, PatchShape, patchFixed, patchEnv
  <1>4. ASSUME NEW g \in PatchFiles \ patchLate PROVE PatchFileOK(g)'
    <2>1. PatchFileOK(g) /\ PatchTarget(g)' = PatchTarget(g) /\ (PatchKept(g)' <=> PatchKept(g))
      BY <1>1 DEF PatchInv, PatchTarget, PatchKept, patchFixed
    <2>2. CASE g = f
      BY <1>1, <1>2, <2>1, <2>2 DEF PatchFileOK, patchFixed
    <2>3. CASE g # f
      BY <1>1, <1>2, <2>1, <2>3 DEF PatchFileOK, patchFixed
    <2> QED  BY <2>2, <2>3
  <1> QED  BY <1>1, <1>3, <1>4 DEF PatchInv, patchEnv

LEMMA PatchReplaceFailsInv == ASSUME PatchInv, NEW f \in PatchFiles, PatchReplaceFails(f) PROVE PatchInv'
  <1>1. /\ patchKind # "format" /\ patchPc = "commit" /\ patchPc' = "restore"
        /\ patchTodo' = {g \in PatchFiles : patchBackup[g] # "none"} /\ patchSwap' = {}
        /\ UNCHANGED <<patchFixed, patchDisk, patchBase, patchBackup, patchOutcome, patchHurt, patchEnv>>
    BY DEF PatchReplaceFails
  <1>2. PatchShape'
    BY <1>1 DEF PatchInv, PatchShape, PatchLoops, patchFixed, patchEnv
  <1>3. ASSUME NEW g \in PatchFiles \ patchLate PROVE PatchFileOK(g)'
    <2>1. /\ patchDisk[g] \in {patchBase[g], PatchTarget(g), "gone"}
          /\ PatchKept(g) /\ patchBase[g] # "none"
      <3>1. PatchFileOK(g) /\ patchBase[g] \in PatchContents \cup {"unread"}
        BY DEF PatchInv, PatchShape
      <3> QED  BY <1>1, <3>1 DEF PatchFileOK, PatchContents
    <2>2. PatchTarget(g)' = PatchTarget(g) /\ PatchKept(g)' /\ g \in patchTodo'
      BY <1>1, <2>1 DEF PatchTarget, PatchKept, patchFixed
    <2> QED  BY <1>1, <2>1, <2>2 DEF PatchFileOK
  <1> QED  BY <1>1, <1>2, <1>3 DEF PatchInv, patchEnv

LEMMA PatchMkdirInv == ASSUME PatchInv, PatchMkdir PROVE PatchInv'
  <1>1. /\ patchPc = "mkdir"
        /\ \/ patchPc' = "end" /\ patchOutcome' = "applied" /\ UNCHANGED patchTodo
           \/ patchPc' = "restore" /\ patchTodo' = PatchFiles /\ UNCHANGED patchOutcome
        /\ UNCHANGED <<patchFixed, patchDisk, patchBase, patchBackup, patchSwap, patchHurt, patchEnv>>
    BY DEF PatchMkdir, PatchAnswer
  <1>2. PatchShape'
    BY <1>1 DEF PatchInv, PatchShape, PatchLoops, patchFixed, patchEnv
  <1>3. ASSUME NEW g \in PatchFiles \ patchLate PROVE PatchFileOK(g)'
    <2>1. patchDisk[g] = PatchTarget(g) /\ PatchKept(g)
      BY <1>1 DEF PatchInv, PatchFileOK
    <2>2. PatchTarget(g)' = PatchTarget(g) /\ PatchKept(g)'
      BY <1>1, <2>1 DEF PatchTarget, PatchKept, patchFixed
    <2> QED  BY <1>1, <2>1, <2>2 DEF PatchFileOK
  <1> QED  BY <1>1, <1>2, <1>3 DEF PatchInv, patchEnv

LEMMA PatchWriteFailsInv == ASSUME PatchInv, NEW f \in PatchFiles, PatchWriteFails(f) PROVE PatchInv'
  <1> PICK torn \in BOOLEAN :
        /\ patchDisk' = IF torn THEN [patchDisk EXCEPT ![f] = "torn"] ELSE patchDisk
        /\ patchHurt' = IF torn THEN patchHurt \cup {f} ELSE patchHurt
    BY DEF PatchWriteFails
  <1>1. /\ patchKind = "format" /\ patchPc = "commit" /\ f \in patchTodo
        /\ patchPc' = "restore" /\ patchTodo' = PatchFiles \ patchTodo /\ patchBackup' = patchBase
        /\ UNCHANGED <<patchFixed, patchBase, patchSwap, patchOutcome, patchEnv>>
    BY DEF PatchWriteFails
  <1>2. /\ patchDisk' = [g \in PatchFiles |-> patchDisk'[g]]
        /\ patchDisk'[f] \in {patchDisk[f], "torn"} /\ (~ torn => patchDisk'[f] = patchDisk[f])
        /\ \A g \in PatchFiles \ {f} : patchDisk'[g] = patchDisk[g]
    BY DEF PatchInv, PatchShape
  <1>3. PatchShape'
    BY <1>1, <1>2 DEF PatchInv, PatchShape, PatchLoops, patchFixed, patchEnv
  <1>4. ASSUME NEW g \in PatchFiles \ patchLate PROVE PatchFileOK(g)'
    <2>1. IF g \in patchTodo THEN patchDisk[g] = patchBase[g] ELSE patchDisk[g] = PatchTarget(g)
      BY <1>1 DEF PatchInv, PatchShape, PatchFileOK
    <2>2. PatchTarget(g)' = PatchTarget(g) /\ PatchKept(g)'
      BY <1>1 DEF PatchTarget, PatchKept, patchFixed
    <2>3. CASE g = f
      BY <1>1, <1>2, <2>1, <2>2, <2>3 DEF PatchFileOK
    <2>4. CASE g # f
      BY <1>1, <1>2, <2>1, <2>2, <2>4 DEF PatchFileOK
    <2> QED  BY <2>3, <2>4
  <1> QED  BY <1>1, <1>3, <1>4 DEF PatchInv, patchEnv

LEMMA PatchRestoreInv == ASSUME PatchInv, NEW f \in PatchFiles, PatchRestore(f) PROVE PatchInv'
  <1> PICK ok \in BOOLEAN, left \in PatchContents :
        /\ patchPc = "restore" /\ f \in patchTodo
        /\ patchDisk' = [patchDisk EXCEPT ![f] =
                           IF ok THEN (IF patchBackup[f] = "empty" THEN "torn" ELSE patchBackup[f])
                           ELSE left]
        /\ left \in IF ok \/ patchBackup[f] = "gone" THEN {patchDisk[f]} ELSE {patchDisk[f], "torn"}
        /\ patchHurt' = IF ok THEN patchHurt ELSE patchHurt \cup {f}
        /\ patchTodo' = patchTodo \ {f}
        /\ UNCHANGED <<patchFixed, patchPc, patchBase, patchBackup, patchSwap, patchOutcome, patchEnv>>
    BY DEF PatchRestore
  <1>1. /\ patchDisk' = [g \in PatchFiles |-> patchDisk'[g]]
        /\ ~ ok => patchDisk'[f] \in {patchDisk[f], "torn"}
        /\ ok => patchDisk'[f] = IF patchBackup[f] = "empty" THEN "torn" ELSE patchBackup[f]
        /\ \A g \in PatchFiles \ {f} : patchDisk'[g] = patchDisk[g]
    BY DEF PatchInv, PatchShape
  <1>2. PatchShape'
    BY <1>1 DEF PatchInv, PatchShape, patchFixed, patchEnv
  <1>3. ASSUME NEW g \in PatchFiles \ patchLate PROVE PatchFileOK(g)'
    <2>1. /\ patchDisk[g] \in {patchBase[g], PatchTarget(g), "torn", "gone"}
          /\ IF g \in patchTodo THEN PatchKept(g) ELSE patchDisk[g] = patchBase[g] \/ g \in patchHurt
          /\ patchBase[g] # "empty"
      <3>1. PatchFileOK(g) /\ patchBase[g] \in PatchContents \cup {"unread"}
        BY DEF PatchInv, PatchShape
      <3> QED  BY <3>1 DEF PatchFileOK, PatchContents
    <2>2. PatchTarget(g)' = PatchTarget(g) /\ (PatchKept(g) => PatchKept(g)') /\ patchPc' = "restore"
      BY DEF PatchTarget, PatchKept, patchFixed
    <2>3. CASE g = f
      <3>1. PatchKept(f)
        BY <2>1, <2>3
      <3>2. ok => patchDisk'[f] = patchBase[f] \/ (patchDisk'[f] = "torn" /\ f \in patchHurt)
        BY <1>1, <2>1, <2>3, <3>1 DEF PatchKept
      <3> QED  BY <1>1, <2>1, <2>2, <2>3, <3>2 DEF PatchFileOK
    <2>4. CASE g # f
      BY <1>1, <2>1, <2>2, <2>4 DEF PatchFileOK
    <2> QED  BY <2>3, <2>4
  <1> QED  BY <1>2, <1>3 DEF PatchInv, patchEnv

LEMMA PatchExternalInv == ASSUME PatchInv, NEW f \in PatchFiles, PatchExternal(f) PROVE PatchInv'
  <1> PICK c \in {"ext", "gone"} : patchDisk' = [patchDisk EXCEPT ![f] = c]
    BY DEF PatchExternal
  <1>1. /\ patchPc # "end" /\ patchEdits' = patchEdits + 1
        /\ patchLate' = IF f \in PatchVerified THEN patchLate \cup {f} ELSE patchLate
        /\ UNCHANGED <<patchFixed, patchPc, patchTodo, patchBase, patchBackup, patchSwap, patchOutcome, patchHurt>>
    BY DEF PatchExternal
  <1>2. /\ patchDisk' = [g \in PatchFiles |-> patchDisk'[g]]
        /\ patchDisk'[f] = c /\ c \in PatchContents
        /\ \A g \in PatchFiles \ {f} : patchDisk'[g] = patchDisk[g]
    BY DEF PatchInv, PatchShape, PatchContents
  <1>3. PatchShape'
    BY <1>1, <1>2 DEF PatchInv, PatchShape, patchFixed
  <1>4. ASSUME NEW g \in PatchFiles \ patchLate' PROVE PatchFileOK(g)'
    <2>1. PatchFileOK(g) /\ PatchTarget(g)' = PatchTarget(g) /\ (PatchKept(g)' <=> PatchKept(g))
      BY <1>1 DEF PatchInv, PatchTarget, PatchKept, patchFixed
    <2>2. CASE g = f
      <3>1. patchPc = "read" \/ (patchPc = "verify" /\ f \in patchTodo)
        BY <1>1, <2>2 DEF PatchVerified
      <3> QED  BY <1>1, <2>2, <3>1 DEF PatchFileOK
    <2>3. CASE g # f
      BY <1>1, <1>2, <2>1, <2>3 DEF PatchFileOK, patchFixed
    <2> QED  BY <2>2, <2>3
  <1> QED  BY <1>3, <1>4 DEF PatchInv

LEMMA PatchStepInv == PatchInv /\ [PatchNext]_patchVars => PatchInv'
  <1> SUFFICES ASSUME PatchInv, [PatchNext]_patchVars PROVE PatchInv'
    OBVIOUS
  <1>1. CASE PatchRefuse \/ PatchCrash
    BY <1>1, PatchReturnInv DEF PatchRefuse, PatchCrash
  <1>2. CASE PatchRestored
    <2>1. \A f \in PatchFiles \ patchLate : PatchUndone(f)
      BY <1>2 DEF PatchRestored, PatchInv, PatchFileOK, PatchUndone
    <2> QED  BY <1>2, <2>1, PatchReturnInv DEF PatchRestored
  <1>3. ASSUME NEW f \in PatchFiles, PatchConflict(f) \/ PatchUnresolved(f) PROVE PatchInv'
    <2>1. PatchUnresolved(f) => \A g \in PatchFiles \ patchLate : PatchUndone(g)
      BY DEF PatchUnresolved, PatchInv, PatchFileOK, PatchUndone
    <2> QED  BY <1>3, <2>1, PatchReturnInv DEF PatchConflict, PatchUnresolved
  <1>4. ASSUME NEW f \in PatchFiles, PatchReplace(f) \/ PatchWriteInPlace(f) PROVE PatchInv'
    <2>1. PatchComplete(f) /\ patchSwap \subseteq {f}
      BY <1>4 DEF PatchReplace, PatchWriteInPlace, PatchInv, PatchShape
    <2> QED  BY <2>1, PatchCompleteInv
  <1>5. CASE UNCHANGED patchVars
    <2>1. PatchShape'
      BY <1>5 DEF PatchInv, PatchShape, patchVars, patchFixed, patchEnv
    <2>2. ASSUME NEW f \in PatchFiles PROVE PatchFileOK(f)' <=> PatchFileOK(f)
      BY <1>5 DEF PatchFileOK, PatchKept, PatchUndone, PatchTarget, patchVars, patchFixed, patchEnv
    <2> QED  BY <1>5, <2>1, <2>2 DEF PatchInv, patchVars, patchEnv
  <1> QED
    BY <1>1, <1>2, <1>3, <1>4, <1>5, PatchReadInv, PatchVerifyInv, PatchStageInv, PatchRemoveFirstInv, PatchReplaceFailsInv,
       PatchMkdirInv, PatchWriteFailsInv, PatchRestoreInv, PatchExternalInv
    DEF PatchNext

-----------------------------------------------------------------------------
(* The theorems                                                            *)

LEMMA PatchInvHolds == PatchSpec => []PatchInv
  <1>1. PatchInit => PatchInv
    BY DEF PatchInit, PatchInv, PatchShape, PatchLoops, PatchFileOK, PatchContents, PatchKinds, PatchOps
  <1> QED  BY <1>1, PatchStepInv, PTL DEF PatchSpec

\* For any number of files: a tool that answers "applied" has changed every file, and one
\* that answers with an error has restored every file; but it returns at once, without a
\* rollback, when a path cannot be resolved any more, and it does not care for a file whose
\* backup could not be read, whose write in place broke off or whose restore failed
\* (commit_staged_bytes, apply_guarded, restore_backups).
THEOREM WholeOrUndone == PatchSpec => []PatchWholeOrUndone
  <1>1. PatchInv => PatchWholeOrUndone
    BY DEF PatchInv, PatchShape, PatchFileOK, PatchUndone, PatchWholeOrUndone
  <1> QED  BY <1>1, PatchInvHolds, PTL

\* No step of the tools overwrites what somebody else wrote before the file was verified
\* (verify_file_version).
THEOREM EarlierEditsKept == PatchSpec => PatchKeepsEarlierEdits
  <1> DEFINE Keeps ==
        \A f \in PatchFiles \ patchLate :
          patchEdits' = patchEdits /\ patchDisk'[f] # patchDisk[f]
            => \/ patchDisk[f] \in {patchBase[f], PatchTarget(f), "torn"}
               \/ patchDisk[f] = "gone" /\ (patchSwap = {f} \/ patchPc = "restore")
  <1>1. PatchInv /\ [PatchNext]_patchVars => [Keeps]_patchVars
    <2> SUFFICES ASSUME PatchInv, PatchNext, NEW f \in PatchFiles \ patchLate,
                        patchEdits' = patchEdits, patchDisk'[f] # patchDisk[f]
                 PROVE  PatchReplaceable(f)
      BY DEF PatchReplaceable
    <2>1. CASE PatchRefuse \/ PatchMkdir \/ PatchRestored \/ PatchCrash
      BY <2>1 DEF PatchRefuse, PatchMkdir, PatchRestored, PatchCrash, PatchReturn
    <2>2. ASSUME NEW g \in PatchFiles,
                 PatchRead(g) \/ PatchVerify(g) \/ PatchConflict(g) \/ PatchStage(g)
                   \/ PatchUnresolved(g) \/ PatchReplaceFails(g)
          PROVE  FALSE
      BY <2>2 DEF PatchRead, PatchVerify, PatchConflict, PatchStage, PatchUnresolved,
                  PatchReplaceFails, PatchReturn
    <2>3. ASSUME NEW g \in PatchFiles,
                 PatchReplace(g) \/ PatchWriteInPlace(g) \/ PatchRemoveFirst(g) \/ PatchWriteFails(g)
          PROVE  PatchReplaceable(f)
      <3>1. patchPc = "commit" /\ g \in patchTodo
        BY <2>3 DEF PatchReplace, PatchWriteInPlace, PatchRemoveFirst, PatchWriteFails,
                    PatchComplete, PatchLoop
      <3>2. f = g
        BY <2>3 DEF PatchReplace, PatchWriteInPlace, PatchRemoveFirst, PatchWriteFails,
                    PatchComplete, PatchInv, PatchShape
      <3> QED  BY <3>1, <3>2, PatchCommitMayReplace
    <2>4. ASSUME NEW g \in PatchFiles, PatchRestore(g) PROVE PatchReplaceable(f)
      BY <2>4 DEF PatchRestore, PatchInv, PatchFileOK, PatchReplaceable
    <2>5. ASSUME NEW g \in PatchFiles, PatchExternal(g) PROVE FALSE
      BY <2>5 DEF PatchExternal, PatchInv, PatchShape
    <2> QED  BY <2>1, <2>2, <2>3, <2>4, <2>5 DEF PatchNext
  <1> QED  BY <1>1, PatchInvHolds, PTL DEF PatchSpec, PatchKeepsEarlierEdits

(***************************************************************************)
(* The task sessions: for every set of tasks and of calls, of which any    *)
(* may stop between two files, at most one task is current and the index   *)
(* never hides it.                                                         *)
(***************************************************************************)

\* The calls that run under the Task lock hold it.
HtLocked(c) == htOp[c] # "tracked"
HtLockOK(c) == HtLocked(c) /\ htPc[c] \notin {"new", "end"} => htLock = c

\* What a call holds at each place of its code.
HtPlaceOK(c) ==
  /\ htPc[c] = "run" => htOp[c] = "tracked"
  /\ htPc[c] \in {"index", "save"} => htOp[c] \in {"start", "move"}
  /\ htPc[c] \in {"run", "write", "index"} => htTask[c] \in HtTasks
  /\ htPc[c] \in {"load", "reload"} => htFound[c] \in HtTasks
  /\ htOp[c] = "move" /\ htPc[c] \in {"look", "load", "covers", "list", "read", "reload"}
       => htTask[c] \in HtTasks /\ HtOccupies(htCopy[c])

HtAtMostOne == \A s, t \in HtCurrent : s = t
HtIndexFinds == HtCurrent # {} => htIndex # HtNobody \/ ~ htCovers

\* The current task is the one read, or still to be read.
HtReadOK(c) ==
  htPc[c] = "read" =>
    /\ htFound[c] # HtNobody => htFound[c] \in HtCurrent
    /\ HtCurrent \subseteq htUnread[c] \cup {htFound[c]}

\* Nobody changes the index or a status between two looks of a call with the lock.
HtCoversOK(c) == htPc[c] = "covers" /\ HtLocked(c) => htIndex = HtNobody
HtReloadOK(c) == htPc[c] = "reload" /\ HtLocked(c) => htFound[c] \in HtCurrent

\* The status about to be written leaves at most one current task: it is the task's own
\* status, or no other task is current.
HtWriteOK(c) ==
  htPc[c] = "write" =>
    /\ htOp[c] \in {"update", "tracked"} => htCopy[c] = htStatus[htTask[c]]
    /\ htOp[c] = "start" => HtCurrent = {} /\ htCopy[c] = "active"
    /\ htOp[c] = "move" =>
         /\ HtCurrent \subseteq {htTask[c]}
         /\ HtOccupies(htCopy[c]) \/ HtOccupies(htStatus[htTask[c]])

\* An entry is about to be removed only when no task is current.
HtIndexOK(c) ==
  /\ htPc[c] = "index" /\ ~ HtOccupies(htCopy[c]) => HtCurrent = {}
  /\ htPc[c] = "save" /\ htFound[c] = HtNobody => HtCurrent = {}

HtFilesOK(c) == HtReadOK(c) /\ HtCoversOK(c) /\ HtReloadOK(c) /\ HtWriteOK(c) /\ HtIndexOK(c)

HtInv ==
  /\ HtTypeOK
  /\ \A c \in HtCalls : HtLockOK(c) /\ HtPlaceOK(c)
  /\ ~ htOverlap => HtAtMostOne /\ HtIndexFinds /\ \A c \in HtCalls : HtFilesOK(c)

-----------------------------------------------------------------------------
(* Steps that write no task                                                *)

\* What every action but a write leaves alone: the tasks, the other calls, and the index
\* between two looks of a call with the lock.
HtOnlyMoves(c) ==
  /\ UNCHANGED <<htStatus, htOp>> /\ (htOverlap => htOverlap')
  /\ \A d \in HtCalls \ {c} :
       /\ htPc'[d] = htPc[d] /\ htTask'[d] = htTask[d] /\ htCopy'[d] = htCopy[d]
       /\ htFound'[d] = htFound[d] /\ htUnread'[d] = htUnread[d]
       /\ htLock = d => htLock' = d
       /\ ~ htOverlap' /\ htPc[d] = "covers" /\ htLock = d => htIndex' \in {htIndex, HtNobody}

\* Such a step need only be right for the call that takes it.
LEMMA HtFrameInv ==
  ASSUME HtInv, NEW c \in HtCalls, HtOnlyMoves(c), HtTypeOK',
         HtLockOK(c)', HtPlaceOK(c)', ~ htOverlap' => HtIndexFinds' /\ HtFilesOK(c)'
  PROVE  HtInv'
  <1>1. HtCurrent' = HtCurrent /\ (~ htOverlap' => ~ htOverlap)
    BY DEF HtOnlyMoves, HtCurrent
  <1>2. HtAtMostOne' <=> HtAtMostOne
    BY <1>1 DEF HtAtMostOne
  <1>3. ASSUME NEW d \in HtCalls \ {c}
        PROVE  /\ HtLockOK(d)' /\ HtPlaceOK(d)'
               /\ ~ htOverlap' => HtFilesOK(d)'
    <2>1. /\ htPc'[d] = htPc[d] /\ htTask'[d] = htTask[d] /\ htCopy'[d] = htCopy[d]
          /\ htFound'[d] = htFound[d] /\ htUnread'[d] = htUnread[d]
          /\ htLock = d => htLock' = d
          /\ ~ htOverlap' /\ htPc[d] = "covers" /\ htLock = d => htIndex' \in {htIndex, HtNobody}
          /\ htStatus' = htStatus /\ htOp' = htOp
      BY DEF HtOnlyMoves
    <2>2. HtLockOK(d) /\ HtPlaceOK(d) /\ (~ htOverlap => HtFilesOK(d))
      BY DEF HtInv
    <2>3. HtLockOK(d)' /\ HtPlaceOK(d)'
      BY <2>1, <2>2 DEF HtLocked, HtLockOK, HtPlaceOK, HtOccupies
    <2>4. ASSUME ~ htOverlap' PROVE HtFilesOK(d)'
      <3>1. HtFilesOK(d)
        BY <1>1, <2>2, <2>4
      <3>2. HtReadOK(d)' /\ HtReloadOK(d)'
        BY <1>1, <2>1, <3>1 DEF HtFilesOK, HtReadOK, HtReloadOK, HtLocked
      <3>3. HtWriteOK(d)' /\ HtIndexOK(d)'
        BY <1>1, <2>1, <3>1 DEF HtFilesOK, HtWriteOK, HtIndexOK, HtOccupies
      <3>4. HtCoversOK(d)'
        BY <2>1, <2>2, <2>4, <3>1 DEF HtFilesOK, HtCoversOK, HtLocked, HtLockOK
      <3> QED  BY <3>2, <3>3, <3>4 DEF HtFilesOK
    <2> QED  BY <2>3, <2>4
  <1> QED  BY <1>1, <1>2, <1>3 DEF HtInv

\* A call that is neither at a look nor about to write holds nothing.
LEMMA HtFilesRest ==
  ASSUME NEW c \in HtCalls,
         htPc'[c] \notin {"read", "covers", "reload", "write", "index", "save"}
  PROVE  HtFilesOK(c)'
  BY DEF HtFilesOK, HtReadOK, HtCoversOK, HtReloadOK, HtWriteOK, HtIndexOK

\* A call that ends is right wherever it was, and gives the lock back.
LEMMA HtEndFacts ==
  ASSUME HtTypeOK, NEW c \in HtCalls, HtEnd(c)
  PROVE  /\ htPc' \in [HtCalls -> HtPlaces]
         /\ htLock' \in HtCalls \cup {HtNobody}
         /\ \A d \in HtCalls \ {c} : htPc'[d] = htPc[d] /\ (htLock = d => htLock' = d)
         /\ HtLockOK(c)' /\ HtPlaceOK(c)' /\ HtFilesOK(c)'
  <1>1. htPc' = [htPc EXCEPT ![c] = "end"] /\ htPc'[c] = "end"
    BY DEF HtEnd, HtTypeOK
  <1>2. /\ htPc' \in [HtCalls -> HtPlaces]
        /\ \A d \in HtCalls \ {c} : htPc'[d] = htPc[d]
    BY <1>1 DEF HtTypeOK, HtPlaces
  <1>3. /\ htLock' \in HtCalls \cup {HtNobody}
        /\ \A d \in HtCalls \ {c} : htLock = d => htLock' = d
    BY DEF HtEnd, HtTypeOK
  <1>4. HtLockOK(c)' /\ HtPlaceOK(c)' /\ HtFilesOK(c)'
    BY <1>1, HtFilesRest DEF HtLockOK, HtPlaceOK
  <1> QED  BY <1>2, <1>3, <1>4

\* A call that goes on keeps the lock it has.
LEMMA HtGoFacts ==
  ASSUME HtTypeOK, NEW c \in HtCalls, NEW pc \in HtPlaces, HtGo(c, pc)
  PROVE  /\ htPc' \in [HtCalls -> HtPlaces]
         /\ htPc'[c] = pc /\ htLock' = htLock
         /\ \A d \in HtCalls \ {c} : htPc'[d] = htPc[d]
  BY DEF HtGo, HtTypeOK

\* A lookup that ends right leaves its call right, whatever the call wanted the current
\* task for: it found the current task, or there is none.
LEMMA HtFindFacts ==
  ASSUME HtInv, NEW c \in HtCalls, NEW found \in HtTasks \cup {HtNobody}, HtFind(c, found),
         htPc[c] \in {"load", "covers", "read", "reload"}, UNCHANGED <<htStatus, htOp>>,
         HtLocked(c) /\ ~ htOverlap =>
           IF found = HtNobody THEN HtCurrent = {} ELSE found \in HtCurrent
  PROVE  /\ htPc' \in [HtCalls -> HtPlaces]
         /\ htTask' \in [HtCalls -> HtTasks \cup {HtNobody}]
         /\ htCopy' \in [HtCalls -> HtStatuses \cup {"none"}]
         /\ htLock' \in HtCalls \cup {HtNobody}
         /\ \A d \in HtCalls \ {c} : /\ htPc'[d] = htPc[d] /\ htTask'[d] = htTask[d]
                                     /\ htCopy'[d] = htCopy[d] /\ (htLock = d => htLock' = d)
         /\ HtLockOK(c)' /\ HtPlaceOK(c)' /\ (~ htOverlap => HtFilesOK(c)')
  <1>1. HtTypeOK /\ HtLockOK(c) /\ HtPlaceOK(c) /\ HtCurrent' = HtCurrent
    BY DEF HtInv, HtCurrent
  <1>2. "write" \in HtPlaces /\ "run" \in HtPlaces
    BY DEF HtPlaces
  <1>3. CASE /\ htOp[c] = "start" /\ found = HtNobody
             /\ \E t \in HtTasks : htStatus[t] = "none" /\ htTask' = [htTask EXCEPT ![c] = t]
             /\ htCopy' = [htCopy EXCEPT ![c] = "active"]
             /\ HtGo(c, "write")
    <2>1. PICK t \in HtTasks : htTask' = [htTask EXCEPT ![c] = t]
      BY <1>3
    <2>2. htTask' \in [HtCalls -> HtTasks \cup {HtNobody}] /\ htTask'[c] = t
      BY <1>1, <2>1 DEF HtTypeOK
    <2>3. htCopy' \in [HtCalls -> HtStatuses \cup {"none"}] /\ htCopy'[c] = "active"
      BY <1>1, <1>3 DEF HtTypeOK, HtStatuses
    <2>4. /\ htPc' \in [HtCalls -> HtPlaces]
          /\ htPc'[c] = "write" /\ htLock' = htLock
          /\ \A d \in HtCalls \ {c} : htPc'[d] = htPc[d]
      BY <1>1, <1>2, <1>3, HtGoFacts
    <2>5. \A d \in HtCalls \ {c} : htTask'[d] = htTask[d] /\ htCopy'[d] = htCopy[d]
      BY <1>1, <1>3, <2>1 DEF HtTypeOK
    <2>6. HtLockOK(c)' /\ HtPlaceOK(c)'
      BY <1>1, <1>3, <2>2, <2>4 DEF HtLocked, HtLockOK, HtPlaceOK
    <2>7. ~ htOverlap => HtCurrent = {}
      BY <1>3 DEF HtLocked
    <2>8. ~ htOverlap => HtFilesOK(c)'
      BY <1>1, <1>3, <2>3, <2>4, <2>7
      DEF HtFilesOK, HtReadOK, HtCoversOK, HtReloadOK, HtWriteOK, HtIndexOK
    <2> QED  BY <1>1, <2>2, <2>3, <2>4, <2>5, <2>6, <2>8 DEF HtTypeOK
  <1>4. CASE htOp[c] = "move" /\ found \in {HtNobody, htTask[c]} /\ HtGo(c, "write") /\ UNCHANGED <<htTask, htCopy>>
    <2>1. /\ htPc' \in [HtCalls -> HtPlaces]
          /\ htPc'[c] = "write" /\ htLock' = htLock
          /\ \A d \in HtCalls \ {c} : htPc'[d] = htPc[d]
      BY <1>1, <1>2, <1>4, HtGoFacts
    <2>2. htTask[c] \in HtTasks /\ HtOccupies(htCopy[c])
      BY <1>1, <1>4 DEF HtPlaceOK
    <2>3. HtLockOK(c)' /\ HtPlaceOK(c)'
      BY <1>1, <1>4, <2>1, <2>2 DEF HtLocked, HtLockOK, HtPlaceOK
    <2>4. ASSUME ~ htOverlap PROVE HtCurrent \subseteq {htTask[c]}
      <3>1. HtAtMostOne
        BY <2>4 DEF HtInv
      <3>2. IF found = HtNobody THEN HtCurrent = {} ELSE found \in HtCurrent
        BY <1>4, <2>4 DEF HtLocked
      <3> QED  BY <1>4, <3>1, <3>2 DEF HtAtMostOne
    <2>5. ~ htOverlap => HtFilesOK(c)'
      BY <1>1, <1>4, <2>1, <2>2, <2>4
      DEF HtFilesOK, HtReadOK, HtCoversOK, HtReloadOK, HtWriteOK, HtIndexOK, HtOccupies
    <2> QED  BY <1>1, <1>4, <2>1, <2>3, <2>5 DEF HtTypeOK
  <1>5. CASE /\ htOp[c] = "tracked" /\ found # HtNobody
             /\ htTask' = [htTask EXCEPT ![c] = found]
             /\ HtGo(c, "run") /\ UNCHANGED htCopy
    <2>1. /\ htPc' \in [HtCalls -> HtPlaces]
          /\ htPc'[c] = "run" /\ htLock' = htLock
          /\ \A d \in HtCalls \ {c} : htPc'[d] = htPc[d]
      BY <1>1, <1>2, <1>5, HtGoFacts
    <2>2. /\ htTask' \in [HtCalls -> HtTasks \cup {HtNobody}] /\ htTask'[c] \in HtTasks
          /\ \A d \in HtCalls \ {c} : htTask'[d] = htTask[d]
      BY <1>1, <1>5 DEF HtTypeOK
    <2>3. HtLockOK(c)' /\ HtPlaceOK(c)' /\ HtFilesOK(c)'
      BY <1>5, <2>1, <2>2, HtFilesRest DEF HtLocked, HtLockOK, HtPlaceOK
    <2> QED  BY <1>1, <1>5, <2>1, <2>2, <2>3 DEF HtTypeOK
  <1>6. CASE HtEnd(c) /\ UNCHANGED <<htTask, htCopy>>
    BY <1>1, <1>6, HtEndFacts DEF HtTypeOK
  <1> QED  BY <1>3, <1>4, <1>5, <1>6 DEF HtFind

-----------------------------------------------------------------------------
(* The actions                                                             *)

LEMMA HtBeginInv == ASSUME HtInv, NEW c \in HtCalls, HtBegin(c) PROVE HtInv'
  <1>1. HtTypeOK /\ HtLockOK(c) /\ HtPlaceOK(c) /\ HtCurrent' = HtCurrent
    BY DEF HtInv, HtBegin, htFiles, HtCurrent
  <1>2. /\ htOp[c] # "tracked" => htLock = HtNobody /\ htLock' = c
        /\ htOp[c] = "tracked" => htLock' = htLock
        /\ UNCHANGED <<htStatus, htIndex, htCovers, htOp, htFound, htUnread, htOverlap>>
    BY DEF HtBegin, htFiles
  <1>3. \A d \in HtCalls \ {c} : htLock = d => htLock' = d
    BY <1>2, HtAssumption
  <1>4. ~ htOverlap' => HtIndexFinds'
    BY <1>1, <1>2 DEF HtInv, HtIndexFinds
  <1>5. "look" \in HtPlaces /\ "write" \in HtPlaces
    BY DEF HtPlaces
  <1>6. CASE /\ htOp[c] \in {"start", "tracked"}
             /\ htPc' = [htPc EXCEPT ![c] = "look"]
             /\ UNCHANGED <<htTask, htCopy>>
    <2>1. htPc'[c] = "look" /\ HtTypeOK'
      BY <1>1, <1>2, <1>5, <1>6 DEF HtTypeOK
    <2>2. HtOnlyMoves(c)
      BY <1>1, <1>2, <1>3, <1>6 DEF HtOnlyMoves, HtTypeOK
    <2>3. HtLockOK(c)' /\ HtPlaceOK(c)' /\ HtFilesOK(c)'
      BY <1>2, <1>6, <2>1, HtFilesRest DEF HtLocked, HtLockOK, HtPlaceOK
    <2> QED  BY <1>4, <2>1, <2>2, <2>3, HtFrameInv
  <1>7. CASE \E t \in HtTasks, next \in HtStatuses :
               /\ \/ htOp[c] = "move" /\ <<htStatus[t], next>> \in HtMoves
                  \/ htOp[c] = "update" /\ htStatus[t] = next
               /\ htTask' = [htTask EXCEPT ![c] = t]
               /\ htCopy' = [htCopy EXCEPT ![c] = next]
               /\ htPc' = [htPc EXCEPT ![c] = IF HtMustLook(t, next) THEN "look" ELSE "write"]
    <2> PICK t \in HtTasks, next \in HtStatuses :
               /\ \/ htOp[c] = "move" /\ <<htStatus[t], next>> \in HtMoves
                  \/ htOp[c] = "update" /\ htStatus[t] = next
               /\ htTask' = [htTask EXCEPT ![c] = t]
               /\ htCopy' = [htCopy EXCEPT ![c] = next]
               /\ htPc' = [htPc EXCEPT ![c] = IF HtMustLook(t, next) THEN "look" ELSE "write"]
      BY <1>7
    <2>1. /\ htTask'[c] = t /\ htCopy'[c] = next
          /\ htPc'[c] = IF HtMustLook(t, next) THEN "look" ELSE "write"
          /\ HtTypeOK'
      BY <1>1, <1>2, <1>5 DEF HtTypeOK
    <2>2. HtOnlyMoves(c)
      BY <1>1, <1>2, <1>3 DEF HtOnlyMoves, HtTypeOK
    <2>3. HtLockOK(c)' /\ HtPlaceOK(c)'
      BY <1>2, <2>1 DEF HtLocked, HtLockOK, HtPlaceOK, HtMustLook
    <2>4. htOp[c] = "move" => HtOccupies(next) \/ HtOccupies(htStatus[t])
      BY DEF HtMoves, HtOccupies
    <2>5. ASSUME ~ htOverlap, HtOccupies(htStatus[t]) PROVE HtCurrent \subseteq {t}
      <3>1. HtAtMostOne /\ t \in HtCurrent
        BY <2>5 DEF HtInv, HtCurrent
      <3> QED  BY <3>1 DEF HtAtMostOne
    <2>6. ASSUME ~ htOverlap' PROVE HtFilesOK(c)'
      <3>1. CASE HtMustLook(t, next)
        BY <2>1, <3>1, HtFilesRest
      <3>2. CASE ~ HtMustLook(t, next)
        <4>1. htPc'[c] = "write" /\ (HtOccupies(next) => HtOccupies(htStatus[t]))
          BY <2>1, <3>2 DEF HtMustLook
        <4>2. htOp[c] = "move" => HtCurrent \subseteq {t}
          BY <1>2, <2>4, <2>5, <2>6, <4>1
        <4>3. HtWriteOK(c)'
          BY <1>1, <1>2, <2>1, <2>4, <4>1, <4>2 DEF HtWriteOK
        <4> QED  BY <4>1, <4>3 DEF HtFilesOK, HtReadOK, HtCoversOK, HtReloadOK, HtIndexOK
      <3> QED  BY <3>1, <3>2
    <2> QED  BY <1>4, <2>1, <2>2, <2>3, <2>6, HtFrameInv
  <1> QED  BY <1>6, <1>7 DEF HtBegin

\* A step that only changes where the call is, and perhaps what it found and what is left
\* to read, in the middle of a lookup.
LEMMA HtGoesInv ==
  ASSUME HtInv, NEW c \in HtCalls,
         NEW pc \in {"load", "covers", "list", "read", "reload"}, HtGo(c, pc),
         htPc[c] \in {"look", "load", "covers", "list", "read"},
         UNCHANGED <<htStatus, htOp, htTask, htCopy>>, htOverlap => htOverlap',
         \A d \in HtCalls \ {c} : ~ htOverlap' /\ htPc[d] = "covers" /\ htLock = d
                                    => htIndex' \in {htIndex, HtNobody},
         \A d \in HtCalls \ {c} : htFound'[d] = htFound[d] /\ htUnread'[d] = htUnread[d],
         htFound' \in [HtCalls -> HtTasks \cup {HtNobody}],
         htUnread' \in [HtCalls -> SUBSET HtTasks],
         htIndex' \in HtTasks \cup {HtNobody}, htCovers' \in BOOLEAN, htOverlap' \in BOOLEAN,
         pc \in {"load", "reload"} => htFound'[c] \in HtTasks,
         ~ htOverlap' => /\ HtIndexFinds'
                         /\ pc = "read" => HtReadOK(c)'
                         /\ pc = "covers" => HtCoversOK(c)'
                         /\ pc = "reload" => HtReloadOK(c)'
  PROVE  HtInv'
  <1>1. HtTypeOK /\ HtLockOK(c) /\ HtPlaceOK(c)
    BY DEF HtInv
  <1>2. /\ htPc' \in [HtCalls -> HtPlaces] /\ htPc'[c] = pc /\ htLock' = htLock
        /\ \A d \in HtCalls \ {c} : htPc'[d] = htPc[d]
    <2>1. pc \in HtPlaces
      BY DEF HtPlaces
    <2> QED  BY <1>1, <2>1, HtGoFacts
  <1>3. HtTypeOK'
    BY <1>1, <1>2 DEF HtTypeOK
  <1>4. HtOnlyMoves(c)
    BY <1>2 DEF HtOnlyMoves
  <1>5. HtLockOK(c)' /\ HtPlaceOK(c)'
    BY <1>1, <1>2 DEF HtLocked, HtLockOK, HtPlaceOK, HtOccupies
  <1>6. ~ htOverlap' => HtFilesOK(c)'
    BY <1>2 DEF HtFilesOK, HtReadOK, HtCoversOK, HtReloadOK, HtWriteOK, HtIndexOK
  <1> QED  BY <1>3, <1>4, <1>5, <1>6, HtFrameInv

\* A step that ends a lookup.
LEMMA HtFindInv ==
  ASSUME HtInv, NEW c \in HtCalls, NEW found \in HtTasks \cup {HtNobody}, HtFind(c, found),
         htPc[c] \in {"load", "covers", "read", "reload"},
         UNCHANGED <<htStatus, htOp, htFound, htUnread, htOverlap>>,
         htIndex' \in {htIndex, HtNobody}, htCovers' \in BOOLEAN,
         ~ htOverlap => HtIndexFinds',
         HtLocked(c) /\ ~ htOverlap =>
           IF found = HtNobody THEN HtCurrent = {} ELSE found \in HtCurrent
  PROVE  HtInv'
  <1>1. HtTypeOK
    BY DEF HtInv
  <1>2. /\ htPc' \in [HtCalls -> HtPlaces]
        /\ htTask' \in [HtCalls -> HtTasks \cup {HtNobody}]
        /\ htCopy' \in [HtCalls -> HtStatuses \cup {"none"}]
        /\ htLock' \in HtCalls \cup {HtNobody}
        /\ \A d \in HtCalls \ {c} : /\ htPc'[d] = htPc[d] /\ htTask'[d] = htTask[d]
                                    /\ htCopy'[d] = htCopy[d] /\ (htLock = d => htLock' = d)
        /\ HtLockOK(c)' /\ HtPlaceOK(c)' /\ (~ htOverlap => HtFilesOK(c)')
    BY HtFindFacts
  <1>3. HtTypeOK'
    BY <1>1, <1>2 DEF HtTypeOK
  <1>4. HtOnlyMoves(c)
    BY <1>2 DEF HtOnlyMoves
  <1> QED  BY <1>2, <1>3, <1>4, HtFrameInv

LEMMA HtLookInv == ASSUME HtInv, NEW c \in HtCalls, HtLook(c) PROVE HtInv'
  <1>1. HtTypeOK /\ HtCurrent' = HtCurrent /\ htPc[c] = "look"
    BY DEF HtInv, HtLook, htFiles, HtCurrent
  <1>2. /\ UNCHANGED <<htStatus, htIndex, htCovers, htOp, htTask, htCopy, htUnread, htOverlap>>
        /\ htFound' = [htFound EXCEPT ![c] = htIndex]
    BY DEF HtLook, htFiles
  <1>3. ~ htOverlap' => HtIndexFinds'
    BY <1>1, <1>2 DEF HtInv, HtIndexFinds
  <1>4. /\ htFound' \in [HtCalls -> HtTasks \cup {HtNobody}] /\ htFound'[c] = htIndex
        /\ \A d \in HtCalls \ {c} : htFound'[d] = htFound[d]
    BY <1>1, <1>2 DEF HtTypeOK
  <1>5. /\ htUnread' \in [HtCalls -> SUBSET HtTasks] /\ htIndex' \in HtTasks \cup {HtNobody}
        /\ htCovers' \in BOOLEAN /\ htOverlap' \in BOOLEAN
    BY <1>1, <1>2 DEF HtTypeOK
  <1>6. CASE htIndex # HtNobody
    <2>1. HtGo(c, "load") /\ htFound'[c] \in HtTasks
      BY <1>1, <1>4, <1>6 DEF HtLook, HtTypeOK
    <2> QED  BY <1>1, <1>2, <1>3, <1>4, <1>5, <2>1, HtGoesInv
  <1>7. CASE htIndex = HtNobody
    <2>1. HtGo(c, "covers") /\ HtCoversOK(c)'
      BY <1>2, <1>7 DEF HtLook, HtCoversOK
    <2> QED  BY <1>1, <1>2, <1>3, <1>4, <1>5, <2>1, HtGoesInv
  <1> QED  BY <1>6, <1>7

LEMMA HtLoadInv == ASSUME HtInv, NEW c \in HtCalls, HtLoad(c) PROVE HtInv'
  <1>1. HtTypeOK /\ HtPlaceOK(c) /\ HtCurrent' = HtCurrent /\ htPc[c] = "load"
    BY DEF HtInv, HtLoad, htFiles, HtCurrent
  <1>2. /\ UNCHANGED <<htStatus, htIndex, htCovers, htOp, htFound, htUnread, htOverlap>>
        /\ htFound[c] \in HtTasks
    BY <1>1 DEF HtLoad, htFiles, HtPlaceOK
  <1>3. ~ htOverlap' => HtIndexFinds'
    BY <1>1, <1>2 DEF HtInv, HtIndexFinds
  <1>4. CASE HtGo(c, "list") /\ UNCHANGED <<htTask, htCopy>>
    <2>1. /\ htFound' \in [HtCalls -> HtTasks \cup {HtNobody}]
          /\ htUnread' \in [HtCalls -> SUBSET HtTasks] /\ htIndex' \in HtTasks \cup {HtNobody}
          /\ htCovers' \in BOOLEAN /\ htOverlap' \in BOOLEAN
      BY <1>1, <1>2 DEF HtTypeOK
    <2> QED  BY <1>1, <1>2, <1>3, <1>4, <2>1, HtGoesInv
  <1>5. CASE HtOccupies(htStatus[htFound[c]]) /\ HtFind(c, htFound[c])
    <2>1. htFound[c] \in HtCurrent /\ htFound[c] # HtNobody
      BY <1>2, <1>5, HtAssumption DEF HtCurrent
    <2>2. htCovers' \in BOOLEAN
      BY <1>1, <1>2 DEF HtTypeOK
    <2> QED  BY <1>1, <1>2, <1>3, <1>5, <2>1, <2>2, HtFindInv
  <1> QED  BY <1>4, <1>5 DEF HtLoad

LEMMA HtCoversInv == ASSUME HtInv, NEW c \in HtCalls, HtCovers(c) PROVE HtInv'
  <1>1. HtTypeOK /\ HtCurrent' = HtCurrent /\ htPc[c] = "covers"
    BY DEF HtInv, HtCovers, htFiles, HtCurrent
  <1>2. UNCHANGED <<htStatus, htIndex, htCovers, htOp, htFound, htUnread, htOverlap>>
    BY DEF HtCovers, htFiles
  <1>3. ~ htOverlap' => HtIndexFinds'
    BY <1>1, <1>2 DEF HtInv, HtIndexFinds
  <1>4. CASE HtGo(c, "list") /\ UNCHANGED <<htTask, htCopy>>
    <2>1. /\ htFound' \in [HtCalls -> HtTasks \cup {HtNobody}]
          /\ htUnread' \in [HtCalls -> SUBSET HtTasks] /\ htIndex' \in HtTasks \cup {HtNobody}
          /\ htCovers' \in BOOLEAN /\ htOverlap' \in BOOLEAN
      BY <1>1, <1>2 DEF HtTypeOK
    <2> QED  BY <1>1, <1>2, <1>3, <1>4, <2>1, HtGoesInv
  <1>5. CASE htCovers /\ HtFind(c, HtNobody)
    <2>1. HtLocked(c) /\ ~ htOverlap => HtCurrent = {}
      BY <1>1, <1>5 DEF HtInv, HtFilesOK, HtCoversOK, HtIndexFinds
    <2>2. htCovers' \in BOOLEAN
      BY <1>1, <1>2 DEF HtTypeOK
    <2> QED  BY <1>1, <1>2, <1>3, <1>5, <2>1, <2>2, HtFindInv
  <1> QED  BY <1>4, <1>5 DEF HtCovers

LEMMA HtListInv == ASSUME HtInv, NEW c \in HtCalls, HtList(c) PROVE HtInv'
  <1>1. HtTypeOK /\ HtCurrent' = HtCurrent /\ htPc[c] = "list"
    BY DEF HtInv, HtList, htFiles, HtCurrent
  <1>2. /\ UNCHANGED <<htStatus, htIndex, htCovers, htOp, htTask, htCopy, htOverlap>>
        /\ htUnread' = [htUnread EXCEPT ![c] = {t \in HtTasks : htStatus[t] # "none"}]
        /\ htFound' = [htFound EXCEPT ![c] = HtNobody]
        /\ HtGo(c, "read")
    BY DEF HtList, htFiles
  <1>3. ~ htOverlap' => HtIndexFinds'
    BY <1>1, <1>2 DEF HtInv, HtIndexFinds
  <1>4. /\ htFound' \in [HtCalls -> HtTasks \cup {HtNobody}] /\ htFound'[c] = HtNobody
        /\ htUnread' \in [HtCalls -> SUBSET HtTasks]
        /\ htUnread'[c] = {t \in HtTasks : htStatus[t] # "none"}
        /\ \A d \in HtCalls \ {c} : htFound'[d] = htFound[d] /\ htUnread'[d] = htUnread[d]
    BY <1>1, <1>2 DEF HtTypeOK
  <1>5. htIndex' \in HtTasks \cup {HtNobody} /\ htCovers' \in BOOLEAN /\ htOverlap' \in BOOLEAN
    BY <1>1, <1>2 DEF HtTypeOK
  <1>6. HtReadOK(c)'
    <2>1. HtCurrent \subseteq {t \in HtTasks : htStatus[t] # "none"}
      BY DEF HtCurrent, HtOccupies
    <2> QED  BY <1>1, <1>4, <2>1 DEF HtReadOK
  <1> QED  BY <1>1, <1>2, <1>3, <1>4, <1>5, <1>6, HtGoesInv

\* A task that is read is no longer to be read, and if it is the current one it is found.
LEMMA HtReadInv == ASSUME HtInv, NEW c \in HtCalls, HtRead(c) PROVE HtInv'
  <1>1. HtTypeOK /\ HtCurrent' = HtCurrent /\ htPc[c] = "read"
    BY DEF HtInv, HtRead, htFiles, HtCurrent
  <1>2. UNCHANGED <<htStatus, htIndex, htCovers, htOp, htPc, htTask, htCopy, htLock, htOverlap>>
    BY DEF HtRead, htFiles
  <1>3. ~ htOverlap' => HtIndexFinds'
    BY <1>1, <1>2 DEF HtInv, HtIndexFinds
  <1>4. PICK t \in htUnread[c] :
          /\ htUnread' = [htUnread EXCEPT ![c] = @ \ {t}]
          /\ \/ HtOccupies(htStatus[t]) /\ htFound' = [htFound EXCEPT ![c] = t]
             \/ (HtOccupies(htStatus[t]) => htFound[c] # HtNobody) /\ UNCHANGED htFound
    BY DEF HtRead
  <1>5. t \in HtTasks
    BY <1>1, <1>4 DEF HtTypeOK
  <1>6. /\ htFound' \in [HtCalls -> HtTasks \cup {HtNobody}]
        /\ htUnread' \in [HtCalls -> SUBSET HtTasks] /\ htUnread'[c] = htUnread[c] \ {t}
        /\ \A d \in HtCalls \ {c} : htFound'[d] = htFound[d] /\ htUnread'[d] = htUnread[d]
        /\ \/ t \in HtCurrent /\ htFound'[c] = t
           \/ (t \in HtCurrent => htFound[c] # HtNobody) /\ htFound'[c] = htFound[c]
    BY <1>1, <1>4, <1>5 DEF HtTypeOK, HtCurrent
  <1>7. ~ htOverlap' => HtReadOK(c)'
    <2> SUFFICES ASSUME ~ htOverlap' PROVE HtReadOK(c)'
      OBVIOUS
    <2>1. /\ HtAtMostOne
          /\ htFound[c] # HtNobody => htFound[c] \in HtCurrent
          /\ HtCurrent \subseteq htUnread[c] \cup {htFound[c]}
      BY <1>1, <1>2 DEF HtInv, HtFilesOK, HtReadOK
    <2>2. htFound'[c] # HtNobody => htFound'[c] \in HtCurrent
      BY <1>6, <2>1
    <2>3. ASSUME NEW s \in HtCurrent PROVE s \in htUnread'[c] \cup {htFound'[c]}
      BY <1>6, <2>1 DEF HtAtMostOne
    <2> QED  BY <1>1, <2>2, <2>3 DEF HtReadOK
  <1>8. HtTypeOK'
    BY <1>1, <1>2, <1>6 DEF HtTypeOK
  <1>9. HtOnlyMoves(c)
    BY <1>2, <1>6 DEF HtOnlyMoves
  <1>10. HtLockOK(c)' /\ HtPlaceOK(c)'
    BY <1>1, <1>2 DEF HtInv, HtLocked, HtLockOK, HtPlaceOK, HtOccupies
  <1>11. ~ htOverlap' => HtFilesOK(c)'
    BY <1>1, <1>2, <1>7 DEF HtFilesOK, HtCoversOK, HtReloadOK, HtWriteOK, HtIndexOK
  <1> QED  BY <1>3, <1>8, <1>9, <1>10, <1>11, HtFrameInv

\* A listing that met no write has found the current task, if there is one.
LEMMA HtRepairInv == ASSUME HtInv, NEW c \in HtCalls, HtRepair(c) PROVE HtInv'
  <1>1. HtTypeOK /\ HtCurrent' = HtCurrent /\ htPc[c] = "read" /\ htUnread[c] = {}
    BY DEF HtInv, HtRepair, HtCurrent
  <1>2. /\ UNCHANGED <<htStatus, htOp, htFound, htUnread>>
        /\ htIndex' = htFound[c] /\ htCovers' \in BOOLEAN
        /\ htOverlap' = (htOverlap \/ /\ htFound[c] # HtNobody
                                      /\ \E d \in HtCalls \ {c} : htPc[d] = "covers" /\ htLock = d)
    BY DEF HtRepair, HtSaveIndex
  <1>3. ~ htOverlap => IF htFound[c] = HtNobody THEN HtCurrent = {} ELSE htFound[c] \in HtCurrent
    <2> SUFFICES ASSUME ~ htOverlap
                 PROVE  IF htFound[c] = HtNobody THEN HtCurrent = {} ELSE htFound[c] \in HtCurrent
      OBVIOUS
    <2>1. /\ htFound[c] # HtNobody => htFound[c] \in HtCurrent
          /\ HtCurrent \subseteq {htFound[c]}
      BY <1>1 DEF HtInv, HtFilesOK, HtReadOK
    <2>2. HtNobody \notin HtCurrent
      BY HtAssumption DEF HtCurrent
    <2> QED  BY <2>1, <2>2
  <1>4. ~ htOverlap => HtIndexFinds'
    BY <1>1, <1>2, <1>3 DEF HtIndexFinds
  <1>5. /\ htFound[c] \in HtTasks \cup {HtNobody} /\ htOverlap' \in BOOLEAN
        /\ htOverlap => htOverlap'
    BY <1>1, <1>2 DEF HtTypeOK
  <1>6. CASE htFound[c] = HtNobody /\ HtFind(c, HtNobody)
    <2>1. htOverlap' = htOverlap
      BY <1>1, <1>2, <1>6 DEF HtTypeOK
    <2> QED  BY <1>1, <1>2, <1>3, <1>4, <1>6, <2>1, HtFindInv
  <1>7. CASE htFound[c] # HtNobody /\ HtGo(c, "reload") /\ UNCHANGED <<htTask, htCopy>>
    <2>1. htFound'[c] \in HtTasks
      BY <1>2, <1>5, <1>7
    <2>2. ~ htOverlap' => HtIndexFinds' /\ HtReloadOK(c)'
      BY <1>1, <1>2, <1>3, <1>4, <1>5, <1>7 DEF HtReloadOK
    <2>3. \A d \in HtCalls \ {c} : ~ htOverlap' /\ htPc[d] = "covers" /\ htLock = d
                                     => htIndex' \in {htIndex, HtNobody}
      BY <1>2, <1>7
    <2>4. /\ htFound' \in [HtCalls -> HtTasks \cup {HtNobody}]
          /\ htUnread' \in [HtCalls -> SUBSET HtTasks] /\ htIndex' \in HtTasks \cup {HtNobody}
      BY <1>1, <1>2, <1>5 DEF HtTypeOK
    <2> QED  BY <1>1, <1>2, <1>5, <1>7, <2>1, <2>2, <2>3, <2>4, HtGoesInv
  <1> QED  BY <1>6, <1>7 DEF HtRepair

LEMMA HtReloadInv == ASSUME HtInv, NEW c \in HtCalls, HtReload(c) PROVE HtInv'
  <1>1. HtTypeOK /\ HtPlaceOK(c) /\ HtCurrent' = HtCurrent /\ htPc[c] = "reload"
    BY DEF HtInv, HtReload, htFiles, HtCurrent
  <1>2. /\ UNCHANGED <<htStatus, htIndex, htCovers, htOp, htFound, htUnread, htOverlap>>
        /\ htFound[c] \in HtTasks
    BY <1>1 DEF HtReload, htFiles, HtPlaceOK
  <1>3. ~ htOverlap => HtIndexFinds'
    BY <1>1, <1>2 DEF HtInv, HtIndexFinds
  <1> DEFINE found == IF HtOccupies(htStatus[htFound[c]]) THEN htFound[c] ELSE HtNobody
  <1>4. found \in HtTasks \cup {HtNobody} /\ HtFind(c, found)
    BY <1>2 DEF HtReload
  <1>5. HtLocked(c) /\ ~ htOverlap => found \in HtCurrent /\ found # HtNobody
    BY <1>1, <1>2, HtAssumption DEF HtInv, HtFilesOK, HtReloadOK, HtCurrent
  <1>6. htCovers' \in BOOLEAN
    BY <1>1, <1>2 DEF HtTypeOK
  <1> HIDE DEF found
  <1> QED  BY <1>1, <1>2, <1>3, <1>4, <1>5, <1>6, HtFindInv

LEMMA HtRefreshInv == ASSUME HtInv, NEW c \in HtCalls, HtRefresh(c) PROVE HtInv'
  <1>1. HtTypeOK /\ HtLockOK(c) /\ HtPlaceOK(c) /\ HtCurrent' = HtCurrent /\ htPc[c] = "run"
    BY DEF HtInv, HtRefresh, htFiles, HtCurrent
  <1>2. UNCHANGED <<htStatus, htIndex, htCovers, htOp, htTask, htFound, htUnread, htOverlap>>
    BY DEF HtRefresh, htFiles
  <1>3. ~ htOverlap' => HtIndexFinds'
    BY <1>1, <1>2 DEF HtInv, HtIndexFinds
  <1>4. /\ htPc' \in [HtCalls -> HtPlaces] /\ htPc'[c] = "write" /\ htLock' = htLock
        /\ \A d \in HtCalls \ {c} : htPc'[d] = htPc[d]
    <2>1. "write" \in HtPlaces
      BY DEF HtPlaces
    <2> QED  BY <1>1, <2>1, HtGoFacts DEF HtRefresh
  <1>5. htTask[c] \in HtTasks /\ htOp[c] = "tracked"
    BY <1>1 DEF HtPlaceOK
  <1>6. htCopy' = [htCopy EXCEPT ![c] = htStatus[htTask[c]]]
    BY DEF HtRefresh
  <1>7. htCopy'[c] = htStatus[htTask[c]] /\ HtTypeOK' /\ HtOnlyMoves(c)
    BY <1>1, <1>2, <1>4, <1>5, <1>6 DEF HtTypeOK, HtOnlyMoves
  <1>8. HtLockOK(c)' /\ HtPlaceOK(c)' /\ HtFilesOK(c)'
    BY <1>2, <1>4, <1>5, <1>7
    DEF HtLocked, HtLockOK, HtPlaceOK, HtFilesOK, HtReadOK, HtCoversOK, HtReloadOK, HtWriteOK,
        HtIndexOK
  <1> QED  BY <1>3, <1>7, <1>8, HtFrameInv

LEMMA HtIndexInv == ASSUME HtInv, NEW c \in HtCalls, HtIndexTask(c) PROVE HtInv'
  <1>1. HtTypeOK /\ HtLockOK(c) /\ HtPlaceOK(c) /\ HtCurrent' = HtCurrent /\ htPc[c] = "index"
    BY DEF HtInv, HtIndexTask, htFiles, HtCurrent
  <1> DEFINE entry == IF HtOccupies(htCopy[c]) THEN htTask[c]
                      ELSE IF htIndex = htTask[c] THEN HtNobody ELSE htIndex
  <1>2. /\ UNCHANGED <<htStatus, htIndex, htCovers, htOp, htTask, htCopy, htUnread, htOverlap>>
        /\ htFound' = [htFound EXCEPT ![c] = entry]
    BY DEF HtIndexTask, htFiles
  <1>3. htTask[c] \in HtTasks /\ htTask[c] # HtNobody /\ htOp[c] \in {"start", "move"}
    BY <1>1, HtAssumption DEF HtPlaceOK
  <1>4. ~ htOverlap' => HtIndexFinds'
    BY <1>1, <1>2 DEF HtInv, HtIndexFinds
  <1>5. /\ entry \in HtTasks \cup {HtNobody}
        /\ ~ htOverlap /\ entry = HtNobody => HtCurrent = {}
    BY <1>1, <1>3 DEF HtTypeOK, HtInv, HtFilesOK, HtIndexOK
  <1> HIDE DEF entry
  <1>6. /\ htFound' \in [HtCalls -> HtTasks \cup {HtNobody}] /\ htFound'[c] = entry
        /\ \A d \in HtCalls \ {c} : htFound'[d] = htFound[d]
    BY <1>1, <1>2, <1>5 DEF HtTypeOK
  <1>7. /\ htPc' \in [HtCalls -> HtPlaces] /\ htPc'[c] = "save" /\ htLock' = htLock
        /\ \A d \in HtCalls \ {c} : htPc'[d] = htPc[d]
    <2>1. "save" \in HtPlaces
      BY DEF HtPlaces
    <2> QED  BY <1>1, <2>1, HtGoFacts DEF HtIndexTask
  <1>8. HtTypeOK' /\ HtOnlyMoves(c)
    BY <1>1, <1>2, <1>6, <1>7 DEF HtTypeOK, HtOnlyMoves
  <1>9. HtLockOK(c)' /\ HtPlaceOK(c)'
    BY <1>1, <1>2, <1>3, <1>7 DEF HtLocked, HtLockOK, HtPlaceOK
  <1>10. ~ htOverlap' => HtFilesOK(c)'
    BY <1>1, <1>2, <1>5, <1>6, <1>7
    DEF HtFilesOK, HtReadOK, HtCoversOK, HtReloadOK, HtWriteOK, HtIndexOK
  <1> QED  BY <1>4, <1>8, <1>9, <1>10, HtFrameInv

LEMMA HtSaveInv == ASSUME HtInv, NEW c \in HtCalls, HtSave(c) PROVE HtInv'
  <1>1. HtTypeOK /\ HtLockOK(c) /\ HtPlaceOK(c) /\ HtCurrent' = HtCurrent /\ htPc[c] = "save"
    BY DEF HtInv, HtSave, HtCurrent
  <1>2. /\ UNCHANGED <<htStatus, htOp, htTask, htCopy, htFound, htUnread, htOverlap>>
        /\ htIndex' = htFound[c] /\ htCovers' \in BOOLEAN
    BY DEF HtSave, HtSaveIndex
  <1>3. ~ htOverlap' => HtIndexFinds'
    BY <1>1, <1>2 DEF HtInv, HtFilesOK, HtIndexOK, HtIndexFinds
  <1>4. /\ htPc' \in [HtCalls -> HtPlaces] /\ htLock' \in HtCalls \cup {HtNobody}
        /\ \A d \in HtCalls \ {c} : htPc'[d] = htPc[d] /\ (htLock = d => htLock' = d)
        /\ HtLockOK(c)' /\ HtPlaceOK(c)' /\ HtFilesOK(c)'
    BY <1>1, HtEndFacts DEF HtSave
  <1>5. htLock = c
    BY <1>1 DEF HtLocked, HtLockOK, HtPlaceOK
  <1>6. HtTypeOK' /\ HtOnlyMoves(c)
    BY <1>1, <1>2, <1>4, <1>5 DEF HtTypeOK, HtOnlyMoves
  <1> QED  BY <1>3, <1>4, <1>6, HtFrameInv

LEMMA HtStopsInv == ASSUME HtInv, NEW c \in HtCalls, HtStops(c) PROVE HtInv'
  <1>1. HtTypeOK /\ HtCurrent' = HtCurrent
    BY DEF HtInv, HtStops, htFiles, HtCurrent
  <1>2. UNCHANGED <<htStatus, htIndex, htCovers, htOp, htTask, htCopy, htFound, htUnread, htOverlap>>
    BY DEF HtStops, htFiles
  <1>3. ~ htOverlap' => HtIndexFinds'
    BY <1>1, <1>2 DEF HtInv, HtIndexFinds
  <1>4. /\ htPc' \in [HtCalls -> HtPlaces] /\ htLock' \in HtCalls \cup {HtNobody}
        /\ \A d \in HtCalls \ {c} : htPc'[d] = htPc[d] /\ (htLock = d => htLock' = d)
        /\ HtLockOK(c)' /\ HtPlaceOK(c)' /\ HtFilesOK(c)'
    BY <1>1, HtEndFacts DEF HtStops
  <1>5. HtTypeOK' /\ HtOnlyMoves(c)
    BY <1>1, <1>2, <1>4 DEF HtTypeOK, HtOnlyMoves
  <1> QED  BY <1>3, <1>4, <1>5, HtFrameInv

\* The write of a task: of the other calls only those that read the tasks, or hold an older
\* status of this one, can meet it, or htOverlap tells.
LEMMA HtWriteInv == ASSUME HtInv, NEW c \in HtCalls, HtWrite(c) PROVE HtInv'
  <1>1. HtTypeOK /\ HtLockOK(c) /\ HtPlaceOK(c) /\ htPc[c] = "write" /\ htTask[c] \in HtTasks
    BY DEF HtInv, HtWrite, HtPlaceOK
  <1>2. /\ htStatus' = [htStatus EXCEPT ![htTask[c]] = htCopy[c]] /\ htCovers' = FALSE
        /\ UNCHANGED <<htIndex, htOp, htTask, htCopy, htFound, htUnread>>
    BY DEF HtWrite, HtTaskSaved
  <1>3. /\ htPc' \in [HtCalls -> HtPlaces]
        /\ htLock' \in HtCalls \cup {HtNobody}
        /\ \A d \in HtCalls \ {c} : htPc'[d] = htPc[d] /\ (htLock = d => htLock' = d)
        /\ htPc'[c] = IF htOp[c] \in {"start", "move"} THEN "index" ELSE "end"
        /\ htPc'[c] = "index" => htLock' = htLock
    <2>1. CASE htOp[c] \in {"start", "move"}
      <3>1. HtGo(c, "index") /\ "index" \in HtPlaces
        BY <2>1 DEF HtWrite, HtPlaces
      <3> QED  BY <1>1, <2>1, <3>1, HtGoFacts DEF HtTypeOK
    <2>2. CASE htOp[c] \notin {"start", "move"}
      <3>1. HtEnd(c) /\ htPc'[c] = "end"
        BY <1>1, <2>2 DEF HtWrite, HtEnd, HtTypeOK
      <3> QED  BY <1>1, <2>2, <3>1, HtEndFacts
    <2> QED  BY <2>1, <2>2
  <1>4. HtTypeOK'
    <2>1. htStatus' \in [HtTasks -> HtStatuses \cup {"none"}]
      BY <1>1, <1>2 DEF HtTypeOK
    <2>2. htOverlap' \in BOOLEAN
      BY DEF HtWrite
    <2> QED  BY <1>1, <1>2, <1>3, <2>1, <2>2 DEF HtTypeOK
  <1>5. ASSUME NEW d \in HtCalls PROVE HtLockOK(d)' /\ HtPlaceOK(d)'
    <2>1. HtLockOK(d) /\ HtPlaceOK(d)
      BY DEF HtInv
    <2>2. CASE d = c
      BY <1>1, <1>2, <1>3, <2>2 DEF HtLocked, HtLockOK, HtPlaceOK
    <2>3. CASE d # c
      BY <1>2, <1>3, <2>1, <2>3 DEF HtLocked, HtLockOK, HtPlaceOK, HtOccupies
    <2> QED  BY <2>2, <2>3
  <1>6. ASSUME ~ htOverlap'
        PROVE  HtAtMostOne' /\ HtIndexFinds' /\ \A d \in HtCalls : HtFilesOK(d)'
    <2>1. /\ ~ htOverlap
          /\ htCopy[c] # htStatus[htTask[c]] =>
               \A d \in HtCalls \ {c} :
                 htPc[d] # "read" /\ (htPc[d] = "write" => htTask[d] # htTask[c])
      BY <1>6 DEF HtWrite
    <2>2. HtAtMostOne /\ \A d \in HtCalls : HtFilesOK(d)
      BY <2>1 DEF HtInv
    <2>3. HtIndexFinds'
      BY <1>2 DEF HtIndexFinds
    <2>4. htOp[c] \in {"start", "move"} => HtCurrent \subseteq {htTask[c]}
      BY <1>1, <2>2 DEF HtFilesOK, HtWriteOK
    <2>5. CASE htCopy[c] = htStatus[htTask[c]]
      <3>1. htStatus' = htStatus
        BY <1>1, <1>2, <2>5 DEF HtTypeOK
      <3>2. HtCurrent' = HtCurrent
        BY <3>1 DEF HtCurrent
      <3>3. ASSUME NEW d \in HtCalls PROVE HtFilesOK(d)'
        <4>1. CASE d = c
          <5>1. CASE htOp[c] \in {"start", "move"}
            <6>1. ~ HtOccupies(htCopy[c]) => HtCurrent = {}
              BY <2>4, <2>5, <5>1 DEF HtCurrent
            <6> QED
              BY <1>2, <1>3, <3>2, <4>1, <5>1, <6>1
              DEF HtFilesOK, HtReadOK, HtCoversOK, HtReloadOK, HtWriteOK, HtIndexOK, HtOccupies
          <5>2. CASE htOp[c] \notin {"start", "move"}
            BY <1>3, <4>1, <5>2, HtFilesRest
          <5> QED  BY <5>1, <5>2
        <4>2. CASE d # c
          <5>1. HtFilesOK(d) /\ htPc'[d] = htPc[d]
            BY <1>3, <2>2, <4>2
          <5>2. HtReadOK(d)' /\ HtCoversOK(d)' /\ HtReloadOK(d)'
            BY <1>2, <3>2, <5>1 DEF HtFilesOK, HtReadOK, HtCoversOK, HtReloadOK, HtLocked
          <5>3. HtWriteOK(d)' /\ HtIndexOK(d)'
            BY <1>2, <3>1, <3>2, <5>1 DEF HtFilesOK, HtWriteOK, HtIndexOK, HtOccupies
          <5> QED  BY <5>2, <5>3 DEF HtFilesOK
        <4> QED  BY <4>1, <4>2
      <3> QED  BY <2>2, <2>3, <3>2, <3>3 DEF HtAtMostOne
    <2>6. CASE htCopy[c] # htStatus[htTask[c]]
      <3>1. htOp[c] \in {"start", "move"} /\ HtCurrent \subseteq {htTask[c]}
        BY <1>1, <2>2, <2>4, <2>6 DEF HtFilesOK, HtWriteOK, HtTypeOK
      <3>2. ASSUME NEW s \in HtCurrent' PROVE s = htTask[c] /\ HtOccupies(htCopy[c])
        <4>1. s \in HtTasks /\ HtOccupies(htStatus'[s])
          BY DEF HtCurrent, HtOccupies
        <4>2. s # htTask[c] => s \in HtCurrent
          BY <1>1, <1>2, <4>1 DEF HtTypeOK, HtCurrent
        <4>3. htStatus'[htTask[c]] = htCopy[c]
          BY <1>1, <1>2 DEF HtTypeOK
        <4> QED  BY <3>1, <4>1, <4>2, <4>3
      <3>3. HtAtMostOne'
        BY <3>2 DEF HtAtMostOne
      <3>4. htLock = c
        BY <1>1, <3>1 DEF HtLocked, HtLockOK
      <3>5. ASSUME NEW d \in HtCalls PROVE HtFilesOK(d)'
        <4>1. CASE d = c
          <5>1. htPc'[c] = "index"
            BY <1>3, <3>1
          <5>2. ~ HtOccupies(htCopy[c]) => HtCurrent' = {}
            BY <3>2
          <5> QED
            BY <1>2, <4>1, <5>1, <5>2
            DEF HtFilesOK, HtReadOK, HtCoversOK, HtReloadOK, HtWriteOK, HtIndexOK, HtOccupies
        <4>2. CASE d # c
          <5>1. HtLockOK(d) /\ HtPlaceOK(d) /\ htPc'[d] = htPc[d]
            BY <1>3, <4>2 DEF HtInv
          <5>2. /\ HtLocked(d) => htPc[d] \in {"new", "end"}
                /\ htPc[d] \notin {"index", "save"} /\ (htPc[d] = "write" => htOp[d] = "tracked")
            BY <3>4, <4>2, <5>1 DEF HtLocked, HtLockOK, HtPlaceOK
          <5>3. htPc[d] = "write" => htStatus'[htTask[d]] = htStatus[htTask[d]]
            BY <1>1, <1>2, <2>1, <2>6, <4>2, <5>1 DEF HtTypeOK, HtPlaceOK
          <5>4. HtWriteOK(d)'
            BY <1>2, <2>2, <5>1, <5>2, <5>3 DEF HtFilesOK, HtWriteOK
          <5>5. HtReadOK(d)' /\ HtCoversOK(d)' /\ HtReloadOK(d)' /\ HtIndexOK(d)'
            BY <1>2, <2>1, <2>6, <4>2, <5>1, <5>2
            DEF HtReadOK, HtCoversOK, HtReloadOK, HtIndexOK, HtLocked
          <5> QED  BY <5>4, <5>5 DEF HtFilesOK
        <4> QED  BY <4>1, <4>2
      <3> QED  BY <2>3, <3>3, <3>5
    <2> QED  BY <2>5, <2>6
  <1> QED  BY <1>4, <1>5, <1>6 DEF HtInv

-----------------------------------------------------------------------------
(* The theorems                                                            *)

LEMMA HtInvHolds == HtSpec => []HtInv
  <1>1. HtInit => HtInv
    <2> SUFFICES ASSUME HtInit PROVE HtInv
      OBVIOUS
    <2>1. HtTypeOK
      <3>1. /\ htStatus \in [HtTasks -> HtStatuses \cup {"none"}]
            /\ htCopy \in [HtCalls -> HtStatuses \cup {"none"}]
        BY DEF HtInit
      <3>2. htPc \in [HtCalls -> HtPlaces] /\ htUnread \in [HtCalls -> SUBSET HtTasks]
        BY DEF HtInit, HtPlaces
      <3>3. /\ htTask \in [HtCalls -> HtTasks \cup {HtNobody}]
            /\ htFound \in [HtCalls -> HtTasks \cup {HtNobody}]
        BY DEF HtInit
      <3> QED  BY <3>1, <3>2, <3>3 DEF HtInit, HtTypeOK
    <2>2. HtCurrent = {}
      BY DEF HtInit, HtCurrent, HtOccupies
    <2>3. ASSUME NEW c \in HtCalls PROVE HtLockOK(c) /\ HtPlaceOK(c) /\ HtFilesOK(c)
      BY DEF HtInit, HtLocked, HtLockOK, HtPlaceOK, HtFilesOK, HtReadOK, HtCoversOK, HtReloadOK,
             HtWriteOK, HtIndexOK
    <2> QED  BY <2>1, <2>2, <2>3 DEF HtInv, HtAtMostOne, HtIndexFinds
  <1>2. HtInv /\ [HtNext]_htVars => HtInv'
    <2>1. ASSUME HtInv, UNCHANGED htVars PROVE HtInv'
      <3>1. HtTypeOK' /\ HtCurrent' = HtCurrent
        BY <2>1 DEF HtInv, htVars, htFiles, HtTypeOK, HtCurrent
      <3>2. ASSUME NEW c \in HtCalls PROVE (HtLockOK(c)' <=> HtLockOK(c)) /\ (HtPlaceOK(c)' <=> HtPlaceOK(c))
        BY <2>1 DEF htVars, htFiles, HtLocked, HtLockOK, HtPlaceOK, HtOccupies
      <3>3. ASSUME NEW c \in HtCalls PROVE HtFilesOK(c)' <=> HtFilesOK(c)
        BY <2>1, <3>1 DEF htVars, htFiles, HtFilesOK, HtReadOK, HtCoversOK, HtReloadOK, HtLocked, HtWriteOK,
            HtIndexOK, HtOccupies
      <3>4. (HtAtMostOne' <=> HtAtMostOne) /\ (HtIndexFinds' <=> HtIndexFinds) /\ htOverlap' = htOverlap
        BY <2>1, <3>1 DEF htVars, htFiles, HtAtMostOne, HtIndexFinds
      <3> QED  BY <2>1, <3>1, <3>2, <3>3, <3>4 DEF HtInv
    <2> QED
      BY <2>1, HtBeginInv, HtLookInv, HtLoadInv, HtCoversInv, HtListInv, HtReadInv, HtRepairInv,
         HtReloadInv, HtRefreshInv, HtWriteInv, HtIndexInv, HtSaveInv, HtStopsInv
      DEF HtNext
  <1> QED  BY <1>1, <1>2, PTL DEF HtSpec

\* However calls stop between their files (start, transition, finish_task), a lookup
\* finds the current task or rebuilds the index (current_task_for_scope), and there is
\* at most one (TASK_ALREADY_ACTIVE), unless what the Task lock does not keep apart has
\* overlapped (htOverlap): a status changed or an index was repaired between what another
\* call read and what it did on its account.
THEOREM OneCurrentIsFound == HtSpec => []HtCurrentTask
  <1>1. HtInv => HtCurrentTask
    <2> SUFFICES ASSUME HtInv, ~ htOverlap PROVE HtCurrentIsFound /\ Cardinality(HtCurrent) <= 1
      BY DEF HtCurrentTask, HtOneCurrent
    <2>1. HtAtMostOne /\ HtCurrentIsFound
      BY DEF HtInv, HtIndexFinds, HtCurrentIsFound
    <2>2. CASE HtCurrent = {}
      BY <2>1, <2>2, FS_EmptySet
    <2>3. CASE HtCurrent # {}
      <3> PICK t \in HtCurrent : TRUE
        BY <2>3
      <3>1. HtCurrent = {t}
        BY <2>1 DEF HtAtMostOne
      <3>2. Cardinality({t}) = 1
        BY FS_Singleton
      <3> QED  BY <2>1, <3>1, <3>2
    <2> QED  BY <2>2, <2>3
  <1> QED  BY <1>1, HtInvHolds, PTL

\* For any number of tasks and calls, the files of a scope and the calls' program points
\* keep their types (start_task, transition, finish_task, current_task_for_scope).
THEOREM HtWellTyped == HtSpec => []HtTypeOK
  <1>1. HtInv => HtTypeOK
    BY DEF HtInv
  <1> QED  BY <1>1, HtInvHolds, PTL

-----------------------------------------------------------------------------
(* The tunnel client's hub                                                 *)

HubWaits == hubPc \in {"replaying", "registering"}
HubOffline == hubPc \in {"down", "connect", "rebind"}

\* What the hub is at, or goes on with after a rebind.
HubPhase ==
  IF hubPc = "rebind" THEN hubResume
  ELSE IF hubPc = "replaying" THEN "replay"
  ELSE IF hubPc = "registering" THEN "register" ELSE hubPc

HubShape ==
  /\ hubPc \in {"down", "connect", "replay", "replaying", "run", "register", "registering",
                "unregister", "rebind"}
  /\ hubResume \in {"run", "register", "unregister"}
  /\ hubCommand \in HubCommands
  /\ hubDesired \subseteq HubServices /\ hubTable \in [HubServices -> Nat]
  /\ hubOut \in Seq(HubFrames) /\ hubIn \in Seq(HubAnswers)
  /\ hubSession \in {"attached", "detached", "none"}
  /\ hubServed \in [HubServices -> Nat] /\ hubNextId \in Nat \ {0}
  /\ HubWaits => hubRoute \in HubServices

\* A registration is the last frame, and its answer finds nothing behind it.
HubWireOK ==
  /\ hubUp => hubSession = "attached" /\ ~ HubOffline
  /\ HubOffline => hubOut = <<>> /\ hubIn = <<>>
  /\ hubIn # <<>> => HubWaits /\ hubOut = <<>> /\ Len(hubIn) = 1
  /\ hubIn # <<>> /\ Head(hubIn).type = "registered" => Head(hubIn).id # 0
  /\ \A i \in DOMAIN hubOut :
       hubOut[i].type = "register" => HubWaits /\ i = Len(hubOut) /\ hubOut[i].route = hubRoute

\* How the routes of the hub and those it wants differ while a command is served.
HubWantsOK ==
  /\ HubPhase = "replay" => HubRoutes(hubTable) \subseteq hubDesired
  /\ HubPhase = "run" => HubRoutes(hubTable) = hubDesired
  /\ HubPhase = "register" =>
       /\ hubCommand.op = "add" /\ hubCommand.route \in HubServices \ HubRoutes(hubTable)
       /\ hubDesired = HubRoutes(hubTable) \cup {hubCommand.route}
  /\ HubPhase = "unregister" =>
       /\ hubCommand.op = "remove" /\ hubCommand.route \in HubRoutes(hubTable)
       /\ hubDesired = HubRoutes(hubTable) \ {hubCommand.route}
  /\ hubPc = "replaying" => hubRoute \in hubDesired
  /\ hubPc = "registering" => hubRoute = hubCommand.route

\* The server of a session that is left has the hub's routes under the hub's ids, each
\* id once, and no frame on its way takes one of them away.
HubServesOK ==
  /\ \A s \in HubServices : hubServed[s] < hubNextId
  /\ \A s, t \in HubServices : hubServed[s] = hubServed[t] /\ hubServed[s] # 0 => s = t
  /\ \A s \in HubRoutes(hubTable) : hubServed[s] = hubTable[s]
  /\ \A i \in DOMAIN hubOut, s \in HubRoutes(hubTable) :
       hubOut[i].type = "unregister" => hubTable[s] # hubOut[i].id
  /\ hubIn # <<>> /\ Head(hubIn).type = "registered" => hubServed[hubRoute] = Head(hubIn).id

HubBound == hubSession # "none" /\ hubPc \notin {"down", "connect"}

HubInv == HubShape /\ HubWireOK /\ HubWantsOK /\ (HubBound => HubServesOK)

LEMMA HubAskInv ==
  ASSUME HubInv, NEW op \in {"add", "remove"}, NEW s \in HubServices, HubAsk(op, s)
  PROVE  HubInv'
<1>1. /\ hubCommand.op = "none"
      /\ UNCHANGED <<hubResume, hubRoute, hubTable, hubUp, hubOut, hubIn, hubSession, hubServed,
                     hubNextId>>
  BY DEF HubAsk, HubNoCommand, hubNet, hubServer
<1>2. CASE hubPc = "down"
  <2>1. hubPc' = "connect" /\ hubDesired' = {s} /\ UNCHANGED hubCommand
    BY <1>2 DEF HubAsk
  <2> QED
    BY <1>1, <1>2, <2>1
    DEF HubInv, HubShape, HubWireOK, HubWantsOK, HubBound, HubWaits, HubOffline, HubPhase
<1>3. CASE hubPc # "down"
  <2>1. /\ hubCommand' = [op |-> op, route |-> s] /\ hubCommand' \in HubCommands
        /\ UNCHANGED <<hubPc, hubDesired>>
    BY <1>3 DEF HubAsk, HubCommands
  <2>2. HubShape' /\ HubWireOK' /\ (HubBound => HubServesOK)'
    BY <1>1, <2>1
    DEF HubInv, HubShape, HubWireOK, HubBound, HubServesOK, HubWaits, HubOffline
  <2>3. HubWantsOK'
    BY <1>1, <2>1 DEF HubInv, HubWantsOK, HubPhase
  <2> QED  BY <2>2, <2>3 DEF HubInv
<1> QED  BY <1>2, <1>3

LEMMA HubTakeAddInv == ASSUME HubInv, HubTakeAdd PROVE HubInv'
<1> DEFINE s == hubCommand.route
<1>1. /\ hubPc = "run" /\ hubCommand.op = "add"
      /\ UNCHANGED <<hubResume, hubTable, hubUp, hubOut, hubIn, hubSession, hubServed, hubNextId>>
  BY DEF HubTakeAdd, hubNet, hubServer
<1>2. s \in HubServices
  BY <1>1 DEF HubInv, HubShape, HubCommands, HubNoCommand
<1>3. hubIn = <<>> /\ \A i \in DOMAIN hubOut : hubOut[i].type # "register"
  BY <1>1 DEF HubInv, HubWireOK, HubWaits
<1>4. \/ hubCommand' = HubNoCommand /\ UNCHANGED <<hubPc, hubRoute, hubDesired>>
      \/ /\ s \notin HubRoutes(hubTable) /\ hubDesired' = hubDesired \cup {s}
         /\ hubPc' = "register" /\ UNCHANGED hubCommand
  BY DEF HubTakeAdd
<1>5. HubShape'
  BY <1>1, <1>2, <1>4 DEF HubInv, HubShape, HubWaits, HubCommands
<1>6. HubWireOK'
  BY <1>1, <1>3, <1>4 DEF HubInv, HubWireOK, HubWaits, HubOffline
<1>7. HubWantsOK'
  BY <1>1, <1>2, <1>4 DEF HubInv, HubWantsOK, HubPhase
<1>8. (HubBound => HubServesOK)'
  BY <1>1, <1>3, <1>4 DEF HubInv, HubBound, HubServesOK
<1> QED  BY <1>5, <1>6, <1>7, <1>8 DEF HubInv

\* The hub that has no routes left stops, any other one runs on.
LEMMA HubStops ==
  ASSUME HubInv, UNCHANGED <<hubResume, hubRoute, hubSession, hubServed, hubNextId>>,
         hubDesired' = HubRoutes(hubTable'), hubTable' \in [HubServices -> Nat],
         HubRemoved(hubTable'), hubPc' = "down", HubHangUp
  PROVE  HubInv'
<1>1. HubShape'
  BY DEF HubInv, HubShape, HubRemoved, HubCommands, HubWaits, HubHangUp, HubRoutes
<1> QED  BY <1>1 DEF HubInv, HubWireOK, HubWantsOK, HubBound, HubWaits, HubOffline, HubPhase, HubHangUp

LEMMA HubTakeRemoveInv == ASSUME HubInv, HubTakeRemove PROVE HubInv'
<1> DEFINE s == hubCommand.route
<1>1. /\ hubPc = "run" /\ hubCommand.op = "remove" /\ hubDesired' = hubDesired \ {s}
      /\ UNCHANGED <<hubResume, hubRoute, hubSession, hubServed, hubNextId>>
  BY DEF HubTakeRemove, hubServer
<1>2. hubIn = <<>> /\ \A i \in DOMAIN hubOut : hubOut[i].type # "register"
  BY <1>1 DEF HubInv, HubWireOK, HubWaits
<1>3. HubRoutes(hubTable) = hubDesired
  BY <1>1 DEF HubInv, HubWantsOK, HubPhase
<1>4. CASE s \in HubRoutes(hubTable)
  <2>1. hubPc' = "unregister" /\ UNCHANGED <<hubCommand, hubTable, hubUp, hubOut, hubIn>>
    BY <1>4 DEF HubTakeRemove, hubNet
  <2>2. HubShape'
    BY <1>1, <2>1 DEF HubInv, HubShape, HubWaits
  <2>3. HubWireOK'
    BY <1>1, <1>2, <2>1 DEF HubInv, HubWireOK, HubWaits, HubOffline
  <2>4. HubWantsOK' /\ (HubBound => HubServesOK)'
    BY <1>1, <1>2, <1>3, <1>4, <2>1 DEF HubInv, HubWantsOK, HubPhase, HubBound, HubServesOK
  <2> QED  BY <2>2, <2>3, <2>4 DEF HubInv
<1>5. CASE s \notin HubRoutes(hubTable)
  <2>1. /\ hubCommand' = HubNoCommand /\ hubTable' = hubTable
        /\ HubRemoved(hubTable) /\ hubPc' \in {"down", "run"}
        /\ hubPc' = "down" => HubHangUp
        /\ hubPc' = "run" => UNCHANGED <<hubUp, hubOut, hubIn>>
    BY <1>5 DEF HubTakeRemove, HubRemoved, hubNet
  <2>2. hubDesired' = hubDesired
    BY <1>1, <1>3, <1>5
  <2>3. CASE hubPc' = "down"
    <3>1. hubTable' \in [HubServices -> Nat] /\ hubDesired' = HubRoutes(hubTable')
      BY <1>3, <2>1, <2>2 DEF HubInv, HubShape
    <3> QED  BY <1>1, <2>1, <2>3, <3>1, HubStops
  <2>4. CASE hubPc' = "run"
    <3>1. HubShape'
      BY <1>1, <2>1, <2>2, <2>4 DEF HubInv, HubShape, HubWaits, HubCommands
    <3>2. HubWireOK'
      BY <1>1, <1>2, <2>1, <2>4 DEF HubInv, HubWireOK, HubWaits, HubOffline
    <3>3. HubWantsOK' /\ (HubBound => HubServesOK)'
      BY <1>1, <1>2, <1>3, <2>1, <2>2, <2>4 DEF HubInv, HubWantsOK, HubPhase, HubBound, HubServesOK
    <3> QED  BY <3>1, <3>2, <3>3 DEF HubInv
  <2> QED  BY <2>1, <2>3, <2>4
<1> QED  BY <1>4, <1>5

LEMMA HubUnregisterInv == ASSUME HubInv, HubUnregister PROVE HubInv'
<1> DEFINE s == hubCommand.route
           f == [type |-> "unregister", id |-> hubTable[s]]
<1>1. /\ hubPc = "unregister" /\ hubUp /\ hubCommand' = HubNoCommand
      /\ hubTable' = [hubTable EXCEPT ![s] = 0] /\ HubRemoved(hubTable')
      /\ hubPc' \in {"down", "run"}
      /\ UNCHANGED <<hubResume, hubRoute, hubDesired, hubSession, hubServed, hubNextId>>
  BY DEF HubUnregister, HubRemoved, hubServer
<1>2. /\ s \in HubRoutes(hubTable) /\ hubDesired = HubRoutes(hubTable) \ {s}
      /\ hubTable \in [HubServices -> Nat]
  BY <1>1 DEF HubInv, HubWantsOK, HubPhase, HubShape
<1>3. /\ hubTable' \in [HubServices -> Nat] /\ HubRoutes(hubTable') = HubRoutes(hubTable) \ {s}
      /\ \A t \in HubRoutes(hubTable') : hubTable'[t] = hubTable[t] /\ t # s
  BY <1>1, <1>2 DEF HubRoutes
<1>4. CASE hubPc' = "down"
  <2>1. HubHangUp
    BY <1>4 DEF HubUnregister
  <2> QED  BY <1>1, <1>2, <1>3, <1>4, <2>1, HubStops
<1>5. CASE hubPc' = "run"
  <2>1. hubOut' = Append(hubOut, f) /\ UNCHANGED <<hubUp, hubIn>>
    BY <1>5 DEF HubUnregister
  <2>2. f \in HubFrames /\ hubOut \in Seq(HubFrames)
    BY <1>2 DEF HubFrames, HubRoutes, HubInv, HubShape
  <2>3. /\ hubOut' \in Seq(HubFrames)
        /\ \A i \in DOMAIN hubOut' : hubOut'[i] = f \/ (i \in DOMAIN hubOut /\ hubOut'[i] = hubOut[i])
    BY <2>1, <2>2
  <2>4. hubIn = <<>> /\ \A i \in DOMAIN hubOut : hubOut[i].type # "register"
    BY <1>1 DEF HubInv, HubWireOK, HubWaits
  <2>5. HubShape'
    BY <1>1, <1>3, <1>5, <2>1, <2>3 DEF HubInv, HubShape, HubWaits, HubCommands
  <2>6. HubWireOK'
    BY <1>1, <1>5, <2>1, <2>3, <2>4 DEF HubInv, HubWireOK, HubWaits, HubOffline
  <2>7. HubWantsOK'
    BY <1>1, <1>2, <1>3, <1>5 DEF HubWantsOK, HubPhase
  <2>8. ASSUME HubBound' PROVE HubServesOK'
    <3>1. HubServesOK
      BY <1>1, <2>8 DEF HubInv, HubBound
    <3>2. \A t \in HubRoutes(hubTable') : hubTable'[t] # f.id
      BY <1>2, <1>3, <3>1 DEF HubServesOK, HubRoutes
    <3>3. \A i \in DOMAIN hubOut', t \in HubRoutes(hubTable') :
            hubOut'[i].type = "unregister" => hubTable'[t] # hubOut'[i].id
      BY <1>3, <2>3, <3>1, <3>2 DEF HubServesOK
    <3>4. \A t \in HubRoutes(hubTable') : hubServed'[t] = hubTable'[t]
      BY <1>1, <1>3, <3>1 DEF HubServesOK
    <3> QED  BY <1>1, <2>1, <2>4, <3>1, <3>3, <3>4 DEF HubServesOK
  <2> QED  BY <2>5, <2>6, <2>7, <2>8 DEF HubInv
<1> QED  BY <1>1, <1>4, <1>5

LEMMA HubConnectInv == ASSUME HubInv, HubConnect PROVE HubInv'
<1>1. /\ hubTable' = HubNoRoutes /\ hubServed' = HubNoRoutes /\ hubNextId' = 1
      /\ hubOut' = <<>> /\ hubIn' = <<>> /\ UNCHANGED <<hubResume, hubDesired>>
      /\ \/ hubPc' = "down" /\ ~ hubUp' /\ hubSession' = "none" /\ hubCommand' = HubNoCommand
         \/ hubPc' = "replay" /\ hubUp' /\ hubSession' = "attached" /\ UNCHANGED hubCommand
  BY DEF HubConnect
<1>2. HubNoRoutes \in [HubServices -> Nat] /\ HubRoutes(hubTable') = {}
  BY <1>1 DEF HubNoRoutes, HubRoutes
<1>3. HubShape'
  BY <1>1, <1>2 DEF HubInv, HubShape, HubWaits, HubCommands
<1>4. HubWireOK' /\ HubWantsOK'
  BY <1>1, <1>2 DEF HubWireOK, HubWantsOK, HubPhase, HubWaits, HubOffline
<1>5. HubServesOK'
  BY <1>1, <1>2 DEF HubServesOK, HubNoRoutes
<1> QED  BY <1>3, <1>4, <1>5 DEF HubInv

\* A registration is sent: nothing is on its way back, and it is the last frame.
LEMMA HubSendRegisterInv ==
  ASSUME HubInv, NEW s \in HubServices, NEW next, HubSendRegister(s, next),
         \/ hubPc = "replay" /\ next = "replaying" /\ s \in hubDesired
         \/ hubPc = "register" /\ next = "registering" /\ s = hubCommand.route
  PROVE  HubInv'
<1> DEFINE f == [type |-> "register", route |-> s]
<1>1. /\ hubUp /\ hubOut' = Append(hubOut, f) /\ hubRoute' = s /\ hubPc' = next
      /\ UNCHANGED <<hubResume, hubCommand, hubDesired, hubTable, hubUp, hubIn, hubSession,
                     hubServed, hubNextId>>
  BY DEF HubSendRegister, hubServer
<1>2. f \in HubFrames /\ hubOut \in Seq(HubFrames)
  BY DEF HubFrames, HubInv, HubShape
<1>3. /\ hubOut' \in Seq(HubFrames)
      /\ \A i \in DOMAIN hubOut' :
           \/ hubOut'[i] = f /\ i = Len(hubOut')
           \/ i \in DOMAIN hubOut /\ hubOut'[i] = hubOut[i]
  BY <1>1, <1>2
<1>4. hubIn = <<>> /\ \A i \in DOMAIN hubOut : hubOut[i].type # "register"
  BY DEF HubInv, HubWireOK, HubWaits
<1>5. HubShape'
  BY <1>1, <1>3 DEF HubInv, HubShape, HubWaits
<1>6. HubWireOK'
  BY <1>1, <1>3, <1>4 DEF HubInv, HubWireOK, HubWaits, HubOffline
<1>7. HubWantsOK'
  BY <1>1 DEF HubInv, HubWantsOK, HubPhase
<1>8. (HubBound => HubServesOK)'
  BY <1>1, <1>3, <1>4 DEF HubInv, HubBound, HubServesOK
<1> QED  BY <1>5, <1>6, <1>7, <1>8 DEF HubInv

LEMMA HubReplayedInv == ASSUME HubInv, HubReplayed PROVE HubInv'
<1>1. /\ hubPc = "replay" /\ hubPc' = "run" /\ hubDesired \subseteq HubRoutes(hubTable)
      /\ UNCHANGED <<hubResume, hubCommand, hubRoute, hubDesired, hubTable, hubUp, hubOut, hubIn,
                     hubSession, hubServed, hubNextId>>
  BY DEF HubReplayed, hubNet, hubServer
<1>2. HubShape' /\ HubWireOK'
  BY <1>1 DEF HubInv, HubShape, HubWireOK, HubWaits, HubOffline
<1>3. HubWantsOK'
  BY <1>1 DEF HubInv, HubWantsOK, HubPhase
<1>4. (HubBound => HubServesOK)'
  BY <1>1 DEF HubInv, HubBound, HubServesOK
<1> QED  BY <1>2, <1>3, <1>4 DEF HubInv

LEMMA HubRegisteredInv == ASSUME HubInv, HubRegistered PROVE HubInv'
<1> DEFINE id == Head(hubIn).id
<1>1. /\ HubWaits /\ hubIn # <<>> /\ Head(hubIn).type = "registered"
      /\ hubTable' = [hubTable EXCEPT ![hubRoute] = id] /\ hubIn' = Tail(hubIn)
      /\ hubPc' = IF hubPc = "replaying" THEN "replay" ELSE "run"
      /\ hubCommand' = IF hubPc = "registering" THEN HubNoCommand ELSE hubCommand
      /\ UNCHANGED <<hubResume, hubRoute, hubDesired, hubUp, hubOut, hubSession, hubServed, hubNextId>>
  BY DEF HubRegistered, hubServer, HubWaits
<1>2. /\ hubOut = <<>> /\ Len(hubIn) = 1 /\ id # 0 /\ hubIn \in Seq(HubAnswers)
      /\ hubTable \in [HubServices -> Nat] /\ hubRoute \in HubServices
  BY <1>1 DEF HubInv, HubWireOK, HubShape
<1>3. id \in Nat
  BY <1>1, <1>2 DEF HubAnswers
<1>4. hubIn' = <<>>
  BY <1>1, <1>2
<1>5. /\ hubTable' \in [HubServices -> Nat] /\ HubRoutes(hubTable') = HubRoutes(hubTable) \cup {hubRoute}
      /\ hubTable'[hubRoute] = id
      /\ \A t \in HubServices \ {hubRoute} : hubTable'[t] = hubTable[t]
  BY <1>1, <1>2, <1>3 DEF HubRoutes
<1>6. HubShape'
  BY <1>1, <1>2, <1>4, <1>5 DEF HubInv, HubShape, HubWaits, HubCommands
<1>7. HubWireOK'
  BY <1>1, <1>2, <1>4 DEF HubInv, HubWireOK, HubWaits, HubOffline
<1>8. HubWantsOK'
  BY <1>1, <1>5 DEF HubInv, HubWantsOK, HubPhase, HubWaits
<1>9. ASSUME HubBound' PROVE HubServesOK'
  <2>1. HubServesOK
    BY <1>1, <1>9 DEF HubInv, HubBound, HubWaits
  <2>2. \A s \in HubRoutes(hubTable') : hubServed[s] = hubTable'[s]
    BY <1>1, <1>5, <2>1 DEF HubServesOK, HubRoutes
  <2>3. hubOut' = <<>> /\ UNCHANGED <<hubServed, hubNextId>>
    BY <1>1, <1>2
  <2>4. /\ \A s \in HubServices : hubServed'[s] < hubNextId'
        /\ \A s, t \in HubServices : hubServed'[s] = hubServed'[t] /\ hubServed'[s] # 0 => s = t
    BY <2>1, <2>3 DEF HubServesOK
  <2> QED  BY <1>4, <2>2, <2>3, <2>4 DEF HubServesOK
<1> QED  BY <1>6, <1>7, <1>8, <1>9 DEF HubInv

LEMMA HubRefusedInv == ASSUME HubInv, HubRefused PROVE HubInv'
<1>1. /\ HubWaits /\ hubIn # <<>>
      /\ UNCHANGED <<hubResume, hubRoute, hubTable, hubSession, hubServed, hubNextId>>
  BY DEF HubRefused, hubServer, HubWaits
<1>2. hubOut = <<>> /\ Len(hubIn) = 1 /\ hubIn \in Seq(HubAnswers)
  BY <1>1 DEF HubInv, HubWireOK, HubShape
<1>3. CASE hubPc = "replaying"
  <2>1. hubPc' = "connect" /\ HubHangUp /\ UNCHANGED <<hubCommand, hubDesired>>
    BY <1>3 DEF HubRefused
  <2> QED
    BY <1>1, <2>1
    DEF HubInv, HubShape, HubWireOK, HubWantsOK, HubBound, HubWaits, HubOffline, HubPhase, HubHangUp
<1>4. CASE hubPc = "registering"
  <2>1. /\ hubPc' = "run" /\ hubIn' = Tail(hubIn) /\ hubCommand' = HubNoCommand
        /\ hubDesired' = hubDesired \ {hubRoute} /\ UNCHANGED <<hubUp, hubOut>>
    BY <1>4 DEF HubRefused
  <2>2. hubIn' = <<>>
    BY <1>2, <2>1
  <2>3. HubShape'
    BY <1>1, <2>1, <2>2 DEF HubInv, HubShape, HubWaits, HubCommands
  <2>4. HubWireOK'
    BY <1>1, <1>2, <1>4, <2>1, <2>2 DEF HubInv, HubWireOK, HubWaits, HubOffline
  <2>5. HubWantsOK'
    BY <1>1, <1>4, <2>1 DEF HubInv, HubWantsOK, HubPhase
  <2>6. (HubBound => HubServesOK)'
    BY <1>1, <1>4, <2>1, <2>2 DEF HubInv, HubBound, HubServesOK
  <2> QED  BY <2>3, <2>4, <2>5, <2>6 DEF HubInv
<1> QED  BY <1>1, <1>3, <1>4 DEF HubWaits

LEMMA HubNoticesInv == ASSUME HubInv, HubNotices PROVE HubInv'
<1>1. /\ ~ hubUp' /\ hubOut' = <<>> /\ hubIn' = <<>> /\ ~ HubOffline
      /\ UNCHANGED <<hubCommand, hubRoute, hubDesired, hubTable, hubSession, hubServed, hubNextId>>
      /\ \/ hubPc' = "connect" /\ UNCHANGED hubResume
         \/ hubPc' = "rebind" /\ hubResume' = HubPhase /\ HubPhase \in {"run", "register", "unregister"}
  BY DEF HubNotices, HubHangUp, hubServer, HubOffline, HubPhase
<1>2. HubShape' /\ HubWireOK'
  BY <1>1 DEF HubInv, HubShape, HubWireOK, HubWaits, HubOffline
<1>3. HubWantsOK'
  BY <1>1 DEF HubInv, HubWantsOK, HubPhase
<1>4. (HubBound => HubServesOK)'
  BY <1>1 DEF HubInv, HubBound, HubServesOK, HubOffline
<1> QED  BY <1>2, <1>3, <1>4 DEF HubInv

LEMMA HubRebindInv == ASSUME HubInv, HubRebind \/ HubRebindFails PROVE HubInv'
<1>1. /\ hubPc = "rebind" /\ hubOut = <<>> /\ hubIn = <<>>
      /\ UNCHANGED <<hubResume, hubCommand, hubRoute, hubDesired, hubTable, hubOut, hubIn, hubServed,
                     hubNextId>>
      /\ hubResume \in {"run", "register", "unregister"}
  BY DEF HubRebind, HubRebindFails, HubInv, HubWireOK, HubOffline, hubNet, hubServer, HubShape
<1>2. CASE HubRebind
  <2>1. hubSession = "detached" /\ hubSession' = "attached" /\ hubUp' /\ hubPc' = hubResume
    BY <1>2 DEF HubRebind
  <2>2. HubShape' /\ HubWireOK'
    BY <1>1, <2>1 DEF HubInv, HubShape, HubWireOK, HubWaits, HubOffline
  <2>3. HubWantsOK'
    BY <1>1, <2>1 DEF HubInv, HubWantsOK, HubPhase
  <2>4. (HubBound => HubServesOK)'
    BY <1>1, <2>1 DEF HubInv, HubBound, HubServesOK
  <2> QED  BY <2>2, <2>3, <2>4 DEF HubInv
<1>3. CASE HubRebindFails
  <2>1. hubPc' = "connect" /\ UNCHANGED <<hubSession, hubUp>>
    BY <1>3 DEF HubRebindFails, hubNet, hubServer
  <2> QED
    BY <1>1, <2>1
    DEF HubInv, HubShape, HubWireOK, HubWantsOK, HubBound, HubWaits, HubOffline, HubPhase
<1> QED  BY <1>2, <1>3

LEMMA HubLoseInv == ASSUME HubInv, HubLose PROVE HubInv'
<1>1. /\ ~ hubUp' /\ (hubOut' = hubOut \/ hubOut' = <<>>) /\ (hubIn' = hubIn \/ hubIn' = <<>>)
      /\ UNCHANGED <<hubPc, hubResume, hubCommand, hubRoute, hubDesired, hubTable, hubSession,
                     hubServed, hubNextId>>
  BY DEF HubLose, hubClient, hubServer
<1>2. HubShape'
  <2>1. <<>> \in Seq(HubFrames) /\ <<>> \in Seq(HubAnswers)
    OBVIOUS
  <2>2. hubOut \in Seq(HubFrames) /\ hubIn \in Seq(HubAnswers)
    BY DEF HubInv, HubShape
  <2> QED  BY <1>1, <2>1, <2>2 DEF HubInv, HubShape, HubWaits
<1>3. HubWireOK'
  BY <1>1 DEF HubInv, HubWireOK, HubWaits, HubOffline
<1>4. HubWantsOK'
  BY <1>1 DEF HubInv, HubWantsOK, HubPhase
<1>5. (HubBound => HubServesOK)'
  BY <1>1 DEF HubInv, HubBound, HubServesOK
<1> QED  BY <1>2, <1>3, <1>4, <1>5 DEF HubInv

LEMMA HubServerRegisterInv == ASSUME HubInv, HubServerRegister PROVE HubInv'
<1> DEFINE s == Head(hubOut).route
           id == IF hubServed[s] # 0 THEN hubServed[s] ELSE hubNextId
<1>1. /\ hubSession = "attached" /\ hubOut # <<>> /\ Head(hubOut).type = "register"
      /\ hubOut' = Tail(hubOut)
      /\ UNCHANGED <<hubPc, hubResume, hubCommand, hubRoute, hubDesired, hubTable, hubUp, hubSession>>
      /\ \/ /\ HubReply([type |-> "registered", id |-> id])
            /\ hubServed' = [hubServed EXCEPT ![s] = id]
            /\ hubNextId' = IF id = hubNextId THEN id + 1 ELSE hubNextId
         \/ HubReply([type |-> "error"]) /\ UNCHANGED <<hubServed, hubNextId>>
  BY DEF HubServerRegister, hubClient
<1>2. hubOut \in Seq(HubFrames) /\ hubOut[1] = Head(hubOut) /\ 1 \in DOMAIN hubOut
  BY <1>1 DEF HubInv, HubShape
<1>3. HubWaits /\ Len(hubOut) = 1 /\ s = hubRoute /\ s \in HubServices
  BY <1>1, <1>2 DEF HubInv, HubWireOK, HubShape
<1>4. hubOut' = <<>> /\ hubIn = <<>>
  BY <1>1, <1>2, <1>3 DEF HubInv, HubWireOK
<1>5. hubServed \in [HubServices -> Nat] /\ hubNextId \in Nat \ {0} /\ id \in Nat \ {0}
  BY <1>3 DEF HubInv, HubShape
<1>6. CASE HubReply([type |-> "error"]) /\ UNCHANGED <<hubServed, hubNextId>>
  <2>1. hubIn' \in {<<>>, <<[type |-> "error"]>>} /\ hubIn' \in Seq(HubAnswers)
    <3>1. Append(<<>>, [type |-> "error"]) = <<[type |-> "error"]>>
      OBVIOUS
    <3>2. hubIn' = <<>> \/ hubIn' = <<[type |-> "error"]>>
      BY <1>4, <1>6, <3>1 DEF HubReply
    <3>3. [type |-> "error"] \in HubAnswers
      BY DEF HubAnswers
    <3>4. <<>> \in Seq(HubAnswers) /\ \A a \in HubAnswers : <<a>> \in Seq(HubAnswers)
      OBVIOUS
    <3> QED  BY <3>2, <3>3, <3>4
  <2>2. HubShape'
    BY <1>1, <1>4, <1>6, <2>1 DEF HubInv, HubShape, HubWaits
  <2>3. HubWireOK'
    BY <1>1, <1>3, <1>4, <2>1 DEF HubInv, HubWireOK, HubWaits, HubOffline
  <2>4. HubWantsOK'
    BY <1>1 DEF HubInv, HubWantsOK, HubPhase
  <2>5. (HubBound => HubServesOK)'
    BY <1>1, <1>4, <1>6, <2>1 DEF HubInv, HubBound, HubServesOK
  <2> QED  BY <2>2, <2>3, <2>4, <2>5 DEF HubInv
<1>7. CASE /\ HubReply([type |-> "registered", id |-> id])
           /\ hubServed' = [hubServed EXCEPT ![s] = id]
           /\ hubNextId' = IF id = hubNextId THEN id + 1 ELSE hubNextId
  <2>1. /\ hubIn' \in {<<>>, <<[type |-> "registered", id |-> id]>>}
        /\ hubIn' \in Seq(HubAnswers)
    <3> HIDE DEF id
    <3>1. Append(<<>>, [type |-> "registered", id |-> id]) = <<[type |-> "registered", id |-> id]>>
      OBVIOUS
    <3>2. hubIn' = <<>> \/ hubIn' = <<[type |-> "registered", id |-> id]>>
      BY <1>4, <1>7, <3>1 DEF HubReply
    <3>3. [type |-> "registered", id |-> id] \in HubAnswers
      BY <1>5 DEF HubAnswers
    <3>4. <<>> \in Seq(HubAnswers) /\ \A a \in HubAnswers : <<a>> \in Seq(HubAnswers)
      OBVIOUS
    <3> QED  BY <3>2, <3>3, <3>4
  <2>2. hubServed' \in [HubServices -> Nat] /\ hubNextId' \in Nat \ {0}
    <3> HIDE DEF id
    <3>1. hubServed' \in [HubServices -> Nat]
      BY <1>5, <1>7
    <3>2. hubNextId' = hubNextId \/ hubNextId' = id + 1
      BY <1>7
    <3> QED  BY <1>5, <3>1, <3>2
  <2>3. HubShape'
    BY <1>1, <1>4, <2>1, <2>2 DEF HubInv, HubShape, HubWaits
  <2>4. HubWireOK'
    BY <1>1, <1>3, <1>4, <1>5, <2>1 DEF HubInv, HubWireOK, HubWaits, HubOffline
  <2>5. HubWantsOK'
    BY <1>1 DEF HubInv, HubWantsOK, HubPhase
  <2>6. ASSUME HubBound' PROVE HubServesOK'
    <3>1. HubServesOK
      BY <1>1, <2>6 DEF HubInv, HubBound
    <3>2. \A t \in HubServices : hubServed'[t] = IF t = s THEN id ELSE hubServed[t]
      BY <1>5, <1>7
    <3>3. \A t \in HubServices : hubServed'[t] < hubNextId'
      BY <1>3, <1>5, <1>7, <3>1, <3>2 DEF HubServesOK
    <3>4. \A t, u \in HubServices : hubServed'[t] = hubServed'[u] /\ hubServed'[t] # 0 => t = u
      BY <1>3, <1>5, <3>1, <3>2 DEF HubServesOK
    <3>5. \A t \in HubRoutes(hubTable) : hubServed'[t] = hubTable[t]
      BY <1>3, <3>1, <3>2 DEF HubServesOK, HubRoutes
    <3>6. hubServed'[hubRoute] = id
      BY <1>3, <3>2
    <3> QED  BY <1>1, <1>4, <2>1, <3>3, <3>4, <3>5, <3>6 DEF HubServesOK
  <2> QED  BY <2>3, <2>4, <2>5, <2>6 DEF HubInv
<1> QED  BY <1>1, <1>6, <1>7

LEMMA HubServerUnregisterInv == ASSUME HubInv, HubServerUnregister PROVE HubInv'
<1> DEFINE f == Head(hubOut)
<1>1. /\ hubSession = "attached" /\ hubOut # <<>> /\ f.type = "unregister" /\ hubOut' = Tail(hubOut)
      /\ hubServed' = [s \in HubServices |-> IF hubServed[s] = f.id THEN 0 ELSE hubServed[s]]
      /\ UNCHANGED <<hubPc, hubResume, hubCommand, hubRoute, hubDesired, hubTable, hubUp, hubIn,
                     hubSession, hubNextId>>
  BY DEF HubServerUnregister, hubClient
<1>2. hubOut \in Seq(HubFrames) /\ f = hubOut[1] /\ 1 \in DOMAIN hubOut
  BY <1>1 DEF HubInv, HubShape
<1>3. /\ hubOut' \in Seq(HubFrames) /\ Len(hubOut') = Len(hubOut) - 1
      /\ \A i \in DOMAIN hubOut' : i + 1 \in DOMAIN hubOut /\ hubOut'[i] = hubOut[i + 1]
      /\ \A i \in DOMAIN hubOut' : i \in Nat
  BY <1>1, <1>2
<1>4. hubIn = <<>>
  BY <1>1 DEF HubInv, HubWireOK
<1>5. HubShape'
  BY <1>1, <1>3 DEF HubInv, HubShape, HubWaits
<1>6. HubWireOK'
  <2>1. \A i \in DOMAIN hubOut' : hubOut'[i].type = "register" =>
          HubWaits /\ i = Len(hubOut') /\ hubOut'[i].route = hubRoute
    BY <1>2, <1>3 DEF HubInv, HubWireOK
  <2>2. ~ HubOffline
    BY <1>1 DEF HubInv, HubWireOK
  <2> QED  BY <1>1, <1>4, <2>1, <2>2 DEF HubInv, HubWireOK, HubWaits, HubOffline
<1>7. HubWantsOK'
  BY <1>1 DEF HubInv, HubWantsOK, HubPhase
<1>8. ASSUME HubBound' PROVE HubServesOK'
  <2>1. HubServesOK
    BY <1>1, <1>8 DEF HubInv, HubBound
  <2>2. \A s \in HubRoutes(hubTable) : hubServed[s] = hubTable[s] /\ hubTable[s] # f.id
    BY <1>1, <1>2, <2>1 DEF HubServesOK
  <2>3. hubServed \in [HubServices -> Nat] /\ hubNextId \in Nat \ {0}
    BY DEF HubInv, HubShape
  <2>4. \A s \in HubRoutes(hubTable) : hubServed'[s] = hubTable[s]
    BY <1>1, <2>2 DEF HubRoutes
  <2>5. \A i \in DOMAIN hubOut', s \in HubRoutes(hubTable) :
          hubOut'[i].type = "unregister" => hubTable[s] # hubOut'[i].id
    BY <1>3, <2>1 DEF HubServesOK
  <2>6. /\ \A s \in HubServices : hubServed'[s] < hubNextId
        /\ \A s, t \in HubServices : hubServed'[s] = hubServed'[t] /\ hubServed'[s] # 0 => s = t
    BY <1>1, <2>1, <2>3 DEF HubServesOK
  <2> QED  BY <1>1, <1>4, <2>4, <2>5, <2>6 DEF HubServesOK
<1> QED  BY <1>5, <1>6, <1>7, <1>8 DEF HubInv

LEMMA HubServerEndsInv == ASSUME HubInv, HubServerDetach \/ HubServerExpire PROVE HubInv'
<1>1. /\ ~ hubUp
      /\ UNCHANGED <<hubPc, hubResume, hubCommand, hubRoute, hubDesired, hubTable, hubUp, hubIn>>
  BY DEF HubServerDetach, HubServerExpire, hubClient, hubNet, HubInv, HubWireOK
<1>2. \/ /\ hubSession = "attached" /\ hubSession' = "detached" /\ hubOut' = <<>>
         /\ UNCHANGED <<hubServed, hubNextId>>
      \/ /\ hubSession' = "none" /\ hubServed' = HubNoRoutes /\ hubNextId' = 1
         /\ UNCHANGED hubOut
  BY DEF HubServerDetach, HubServerExpire, hubNet
<1>3. HubNoRoutes \in [HubServices -> Nat]
  BY DEF HubNoRoutes
<1>4. HubShape'
  <2>1. hubServed' \in [HubServices -> Nat] /\ hubNextId' \in Nat \ {0}
    BY <1>2, <1>3 DEF HubInv, HubShape
  <2>2. hubOut' \in Seq(HubFrames)
    <3>1. <<>> \in Seq(HubFrames) /\ hubOut \in Seq(HubFrames)
      BY DEF HubInv, HubShape
    <3>2. hubOut' = <<>> \/ hubOut' = hubOut
      BY <1>2
    <3> QED  BY <3>1, <3>2
  <2>3. hubSession' \in {"attached", "detached", "none"}
    BY <1>2
  <2> QED  BY <1>1, <2>1, <2>2, <2>3 DEF HubInv, HubShape, HubWaits
<1>5. HubWireOK'
  BY <1>1, <1>2 DEF HubInv, HubWireOK, HubWaits, HubOffline
<1>6. HubWantsOK'
  BY <1>1 DEF HubInv, HubWantsOK, HubPhase
<1>7. (HubBound => HubServesOK)'
  BY <1>1, <1>2 DEF HubInv, HubBound, HubServesOK
<1> QED  BY <1>4, <1>5, <1>6, <1>7 DEF HubInv

LEMMA HubInvHolds == HubSpec => []HubInv
<1>1. HubInit => HubInv
  <2> SUFFICES ASSUME HubInit PROVE HubInv
    OBVIOUS
  <2>1. HubShape
    BY DEF HubInit, HubShape, HubWaits, HubCommands, HubNoRoutes
  <2> QED
    BY <2>1 DEF HubInit, HubInv, HubWireOK, HubWantsOK, HubBound, HubWaits, HubOffline, HubPhase
<1>2. HubInv /\ [HubNext]_hubVars => HubInv'
  <2> SUFFICES ASSUME HubInv, [HubNext]_hubVars PROVE HubInv'
    OBVIOUS
  <2>1. CASE HubClient
    <3>1. CASE \E s \in HubServices : HubReplay(s)
      <4>1. PICK s \in HubServices : HubReplay(s)
        BY <3>1
      <4>2. hubPc = "replay" /\ s \in hubDesired /\ HubSendRegister(s, "replaying")
        BY <4>1 DEF HubReplay
      <4> QED  BY <4>2, HubSendRegisterInv
    <3>2. CASE HubRegister
      <4>1. hubPc = "register" /\ HubSendRegister(hubCommand.route, "registering")
        BY <3>2 DEF HubRegister
      <4>2. hubCommand.route \in HubServices
        BY <4>1 DEF HubInv, HubWantsOK, HubPhase
      <4> QED  BY <4>1, <4>2, HubSendRegisterInv
    <3> QED
      BY <2>1, <3>1, <3>2, HubTakeAddInv, HubTakeRemoveInv, HubUnregisterInv, HubConnectInv,
         HubReplayedInv, HubRegisteredInv, HubRefusedInv, HubNoticesInv, HubRebindInv DEF HubClient
  <2>2. CASE HubServer
    BY <2>2, HubServerRegisterInv, HubServerUnregisterInv, HubServerEndsInv DEF HubServer
  <2>3. CASE UNCHANGED hubVars
    BY <2>3
    DEF hubVars, hubClient, hubNet, hubServer, HubInv, HubShape, HubWireOK, HubWantsOK, HubBound,
        HubServesOK, HubWaits, HubOffline, HubPhase
  <2> QED  BY <2>1, <2>2, <2>3, HubLoseInv, HubAskInv DEF HubNext
<1> QED  BY <1>1, <1>2, PTL DEF HubSpec

\* For any number of routes, commands, losses and refusals: between commands the hub lists
\* the routes it wants, and while its socket is up the server has every listed route under
\* the id the hub uses (run_split_session_pool, reconnect_split_control_during_grace).
THEOREM RoutesAgree == HubSpec => []HubRoutesAgree
<1>1. HubInv => HubRoutesAgree
  <2> SUFFICES ASSUME HubInv PROVE HubRoutesAgree
    OBVIOUS
  <2>1. HubTableIsDesired
    BY DEF HubInv, HubWantsOK, HubPhase, HubTableIsDesired
  <2>2. HubTableServed
    BY DEF HubInv, HubWireOK, HubBound, HubServesOK, HubTableServed
  <2> QED  BY <2>1, <2>2 DEF HubRoutesAgree
<1> QED  BY <1>1, HubInvHolds, PTL

\* Whatever commands are given and sockets lost, the hub, its frames and the server's session
\* keep their types: an answer in flight always finds the route it was asked for.
THEOREM HubWellTyped == ASSUME HubServices # {} PROVE HubSpec => []HubTypeOK
<1> DEFINE Rest == hubUp \in BOOLEAN /\ hubRoute \in HubServices
<1>1. HubInit => Rest
  BY DEF HubInit
<1>2. HubInv /\ Rest /\ [HubNext]_hubVars => Rest'
  <2> SUFFICES ASSUME HubInv, Rest, [HubNext]_hubVars PROVE Rest'
    OBVIOUS
  <2>1. hubUp' \in BOOLEAN
    BY DEF HubNext, HubClient, HubServer, HubAsk, HubTakeAdd, HubTakeRemove, HubUnregister,
           HubConnect, HubSendRegister, HubReplay, HubReplayed, HubRegister, HubRegistered,
           HubRefused, HubNotices, HubRebind, HubRebindFails, HubLose, HubServerRegister,
           HubServerUnregister, HubServerDetach, HubServerExpire, HubHangUp, hubNet, hubVars
  <2>2. hubCommand.op # "none" => hubCommand.route \in HubServices
    BY DEF HubInv, HubShape, HubCommands, HubNoCommand
  <2>3. hubPc = "register" => hubCommand.route \in HubServices
    BY DEF HubInv, HubWantsOK, HubPhase
  <2>4. hubRoute' \in HubServices
    BY <2>2, <2>3
    DEF HubNext, HubClient, HubServer, HubAsk, HubTakeAdd, HubTakeRemove, HubUnregister,
        HubConnect, HubSendRegister, HubReplay, HubReplayed, HubRegister, HubRegistered,
        HubRefused, HubNotices, HubRebind, HubRebindFails, HubLose, HubServerRegister,
        HubServerUnregister, HubServerDetach, HubServerExpire, hubClient, hubVars
  <2> QED  BY <2>1, <2>4
<1>3. HubInv /\ Rest => HubTypeOK
  BY DEF HubInv, HubShape, HubTypeOK
<1> QED  BY <1>1, <1>2, <1>3, HubInvHolds, PTL DEF HubSpec

=============================================================================
