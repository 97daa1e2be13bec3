------------------------- MODULE PendingQueueProofs -------------------------
(***************************************************************************)
(* Proofs about PendingQueue: for any set of lanes, limits and requests    *)
(* the slots are accounted for and bounded, and when the requests compete  *)
(* for one lane under one limit no wakeup is lost.                         *)
(***************************************************************************)
EXTENDS PendingQueue, FiniteSetTheorems, TLAPS

USE AdmissionAssumption

\* Adding a new element to, or removing one from, a finite set counts one more or less.
LEMMA CountOneMore ==
  ASSUME NEW S, IsFiniteSet(S), NEW x, x \notin S
  PROVE  /\ IsFiniteSet(S \cup {x})
         /\ Cardinality(S) \in Nat
         /\ Cardinality(S \cup {x}) = Cardinality(S) + 1
BY FS_AddElement, FS_CardinalityType

LEMMA CountOneLess ==
  ASSUME NEW S, IsFiniteSet(S), NEW x, x \in S
  PROVE  /\ IsFiniteSet(S \ {x})
         /\ Cardinality(S) \in Nat \ {0}
         /\ Cardinality(S \ {x}) = Cardinality(S) - 1
<1>1. Cardinality(S) \in Nat
  BY FS_CardinalityType
<1>2. Cardinality(S) # 0
  BY FS_EmptySet
<1>3. QED
  BY <1>1, <1>2, FS_RemoveElement

\* Whatever the requests do, the owners of a lane's slots are finitely many.
LEMMA HoldersFinite ==
  ASSUME NEW l
  PROVE  /\ IsFiniteSet(HoldersOf(l))
         /\ Cardinality(HoldersOf(l)) \in Nat
<1>1. HoldersOf(l) \subseteq Requests
  BY DEF HoldersOf
<1>2. QED
  BY <1>1, FS_Subset, FS_CardinalityType

-----------------------------------------------------------------------------
\* A step that leaves the Notify's sets inside Requests: what notify_one does.
LEMMA NotifyType ==
  ASSUME NEW ws \in SUBSET Requests, NEW wk \in SUBSET Requests, TypeOK,
         NotifyOneOf(ws, wk)
  PROVE  /\ permit' \in BOOLEAN
         /\ waiters' \subseteq Requests
         /\ woken' \subseteq Requests
BY DEF NotifyOneOf, TypeOK

LEMMA DropType ==
  ASSUME NEW r \in Requests, TypeOK, DropNotified(r)
  PROVE  /\ permit' \in BOOLEAN
         /\ waiters' \subseteq Requests
         /\ woken' \subseteq Requests
         /\ ready' \subseteq Requests
<1>1. CASE r \in woken
  BY <1>1, NotifyType DEF DropNotified, TypeOK
<1>2. CASE r \notin woken
  BY <1>2 DEF DropNotified, TypeOK
<1>3. QED
  BY <1>1, <1>2

LEMMA AdmissionInit == Init => AdmissionInv
<1>1. SUFFICES ASSUME Init PROVE AdmissionInv
  OBVIOUS
<1>2. \A l : HoldersOf(l) = {}
  BY <1>1 DEF Init, HoldersOf, Counted
<1>3. TypeOK
  BY <1>1 DEF Init, TypeOK, PC
<1>4. SlotAccounting
  BY <1>1, <1>2, FS_EmptySet DEF Init, SlotAccounting
<1>5. LaneBound
  BY <1>2 DEF LaneBound
<1>6. QED
  BY <1>1, <1>3, <1>4, <1>5 DEF Init, AdmissionInv

\* A step that moves one request between program points outside Counted, or
\* between points of it, leaves every lane's owners alone.
LEMMA SameHolders ==
  ASSUME NEW r \in Requests, TypeOK, NEW q,
         pc' = [pc EXCEPT ![r] = q],
         pc[r] \in Counted <=> q \in Counted
  PROVE  \A l : HoldersOf(l)' = HoldersOf(l)
BY DEF TypeOK, HoldersOf

LEMMA AdmissionStep ==
  ASSUME AdmissionInv, [Next]_vars
  PROVE  AdmissionInv'
<1> USE DEF AdmissionInv
<1>1. CASE UNCHANGED vars
  <2>1. \A l : HoldersOf(l)' = HoldersOf(l)
    BY <1>1 DEF HoldersOf, vars
  <2>2. QED
    BY <1>1, <2>1 DEF vars, notifyVars, TypeOK, SlotAccounting, LaneBound
<1>2. ASSUME NEW r \in Requests, Start(r)
      PROVE  AdmissionInv'
  <2>1. \A l : HoldersOf(l)' = HoldersOf(l)
    BY <1>2, SameHolders DEF Start, Counted
  <2>2. TypeOK'
    BY <1>2 DEF Start, TypeOK, PC, notifyVars
  <2>3. SlotAccounting' /\ LaneBound'
    BY <1>2, <2>1 DEF Start, SlotAccounting, LaneBound, TypeOK
  <2>4. QED
    BY <1>2, <2>2, <2>3 DEF Start, TypeOK
<1>3. ASSUME NEW r \in Requests, Enable(r)
      PROVE  AdmissionInv'
  <2>1. \A l : HoldersOf(l)' = HoldersOf(l)
    BY <1>3, SameHolders DEF Enable, Counted
  <2>2. TypeOK'
    BY <1>3 DEF Enable, TypeOK, PC
  <2>3. SlotAccounting' /\ LaneBound'
    BY <1>3, <2>1 DEF Enable, SlotAccounting, LaneBound, TypeOK
  <2>4. QED
    BY <1>3, <2>2, <2>3 DEF Enable, TypeOK
<1>4. ASSUME NEW r \in Requests, TryNewOk(r)
      PROVE  AdmissionInv'
  <2> DEFINE L == LaneOf[r]
  <2>1. /\ HoldersOf(L)' = HoldersOf(L) \cup {r}
        /\ r \notin HoldersOf(L)
        /\ \A l \in Lanes \ {L} : HoldersOf(l)' = HoldersOf(l)
    BY <1>4 DEF TryNewOk, HoldersOf, Counted, TypeOK
  <2>2. Cardinality(HoldersOf(L))' = Cardinality(HoldersOf(L)) + 1
    BY <2>1, HoldersFinite, CountOneMore
  <2>3. TypeOK'
    BY <1>4 DEF TryNewOk, TypeOK, PC, notifyVars
  <2>4. SlotAccounting'
    <3>1. \A l \in Lanes : pending_requests'[l] = Cardinality(HoldersOf(l)')
      BY <1>4, <2>1, <2>2 DEF TryNewOk, SlotAccounting, TypeOK
    <3>2. entries' = {s \in Requests : pc'[s] = "holding"}
      BY <1>4 DEF TryNewOk, SlotAccounting, TypeOK
    <3>3. QED
      BY <3>1, <3>2 DEF SlotAccounting
  <2>5. LaneBound'
    <3>1. maximum[r] \in Limits[L] /\ pending_requests[L] < maximum[r]
      BY <1>4 DEF TryNewOk
    <3>2. Cardinality(HoldersOf(L)') <= maximum[r]
      BY <2>2, <3>1, HoldersFinite DEF SlotAccounting, TypeOK
    <3>3. QED
      BY <2>1, <3>1, <3>2 DEF LaneBound
  <2>6. QED
    BY <1>4, <2>3, <2>4, <2>5 DEF TryNewOk, TypeOK
<1>5. ASSUME NEW r \in Requests, TryNewFull(r)
      PROVE  AdmissionInv'
  <2>1. \A l : HoldersOf(l)' = HoldersOf(l)
    BY <1>5, SameHolders DEF TryNewFull, Counted
  <2>2. TypeOK'
    BY <1>5 DEF TryNewFull, TypeOK, PC, notifyVars
  <2>3. SlotAccounting' /\ LaneBound'
    BY <1>5, <2>1 DEF TryNewFull, SlotAccounting, LaneBound, TypeOK
  <2>4. QED
    BY <1>5, <2>2, <2>3 DEF TryNewFull, TypeOK
<1>6. ASSUME NEW r \in Requests, Enter(r)
      PROVE  AdmissionInv'
  <2>1. \A l : HoldersOf(l)' = HoldersOf(l)
    BY <1>6, SameHolders DEF Enter, Counted
  <2>2. TypeOK'
    BY <1>6, DropType DEF Enter, TypeOK, PC
  <2>3. SlotAccounting' /\ LaneBound'
    BY <1>6, <2>1 DEF Enter, SlotAccounting, LaneBound, TypeOK
  <2>4. QED
    BY <1>6, <2>2, <2>3 DEF Enter, TypeOK
<1>7. ASSUME NEW r \in Requests, Wake(r)
      PROVE  AdmissionInv'
  <2>1. \A l : HoldersOf(l)' = HoldersOf(l)
    BY <1>7, SameHolders DEF Wake, Counted
  <2>2. TypeOK'
    BY <1>7 DEF Wake, TypeOK, PC
  <2>3. SlotAccounting' /\ LaneBound'
    BY <1>7, <2>1 DEF Wake, SlotAccounting, LaneBound, TypeOK
  <2>4. QED
    BY <1>7, <2>2, <2>3 DEF Wake, TypeOK
<1>8. ASSUME NEW r \in Requests, GiveUp(r)
      PROVE  AdmissionInv'
  <2>1. \A l : HoldersOf(l)' = HoldersOf(l)
    BY <1>8, SameHolders DEF GiveUp, Counted
  <2>2. TypeOK'
    BY <1>8, DropType DEF GiveUp, TypeOK, PC
  <2>3. SlotAccounting' /\ LaneBound'
    BY <1>8, <2>1 DEF GiveUp, SlotAccounting, LaneBound, TypeOK
  <2>4. QED
    BY <1>8, <2>2, <2>3 DEF GiveUp, TypeOK
<1>9. ASSUME NEW r \in Requests, Exit(r)
      PROVE  AdmissionInv'
  <2>1. \A l : HoldersOf(l)' = HoldersOf(l)
    BY <1>9, SameHolders DEF Exit, Counted
  <2>2. TypeOK'
    BY <1>9 DEF Exit, TypeOK, PC, notifyVars
  <2>3. SlotAccounting' /\ LaneBound'
    BY <1>9, <2>1 DEF Exit, SlotAccounting, LaneBound, TypeOK
  <2>4. QED
    BY <1>9, <2>2, <2>3 DEF Exit, TypeOK
<1>10. ASSUME NEW r \in Requests, Sub(r)
       PROVE  AdmissionInv'
  <2> DEFINE L == LaneOf[r]
  <2>1. /\ HoldersOf(L)' = HoldersOf(L) \ {r}
        /\ r \in HoldersOf(L)
        /\ \A l \in Lanes \ {L} : HoldersOf(l)' = HoldersOf(l)
    BY <1>10 DEF Sub, HoldersOf, Counted, TypeOK
  <2>2. /\ Cardinality(HoldersOf(L)') = Cardinality(HoldersOf(L)) - 1
        /\ Cardinality(HoldersOf(L)) \in Nat \ {0}
    BY <2>1, HoldersFinite, CountOneLess
  <2>3. pending_requests[L] \in Nat \ {0}
    BY <2>2 DEF SlotAccounting
  <2>4. TypeOK'
    BY <1>10, <2>3 DEF Sub, TypeOK, PC, notifyVars
  <2>5. SlotAccounting'
    <3>1. \A l \in Lanes : pending_requests'[l] = Cardinality(HoldersOf(l)')
      BY <1>10, <2>1, <2>2 DEF Sub, SlotAccounting, TypeOK
    <3>2. entries' = {s \in Requests : pc'[s] = "holding"}
      BY <1>10 DEF Sub, SlotAccounting, TypeOK
    <3>3. QED
      BY <3>1, <3>2 DEF SlotAccounting
  <2>6. LaneBound'
    <3>1. PICK m \in Limits[L] : Cardinality(HoldersOf(L)) <= m
      BY <2>1 DEF LaneBound
    <3>2. Cardinality(HoldersOf(L)') <= m
      BY <2>2, <3>1
    <3>3. QED
      BY <2>1, <3>1, <3>2 DEF LaneBound
  <2>7. QED
    BY <1>10, <2>4, <2>5, <2>6 DEF Sub, TypeOK
<1>11. ASSUME NEW r \in Requests, NotifyOne(r)
       PROVE  AdmissionInv'
  <2>1. \A l : HoldersOf(l)' = HoldersOf(l)
    BY <1>11, SameHolders DEF NotifyOne, Counted
  <2>2. TypeOK'
    BY <1>11, NotifyType DEF NotifyOne, TypeOK, PC
  <2>3. SlotAccounting' /\ LaneBound'
    BY <1>11, <2>1 DEF NotifyOne, SlotAccounting, LaneBound, TypeOK
  <2>4. QED
    BY <1>11, <2>2, <2>3 DEF NotifyOne, TypeOK
<1>12. QED
  BY <1>1, <1>2, <1>3, <1>4, <1>5, <1>6, <1>7, <1>8, <1>9, <1>10, <1>11 DEF Next, Progress

\* Every variable keeps its type, for any lanes, limits and requests: no lane counter falls
\* below zero, and nobody waits or is woken but a request (release, notify_one).
THEOREM WellTyped == Spec => []TypeOK
<1>1. AdmissionInv => TypeOK
  BY DEF AdmissionInv
<1>2. QED
  BY <1>1, AdmissionInit, AdmissionStep, PTL DEF Spec

\* Every reachable state accounts for its slots and respects the lanes' limits,
\* for any lanes, limits and requests (try_new, release).
THEOREM SlotsAccountedFor == Spec => [](TypeOK /\ SlotAccounting /\ LaneBound)
<1>1. AdmissionInv => TypeOK /\ SlotAccounting /\ LaneBound
  BY DEF AdmissionInv
<1>2. QED
  BY <1>1, AdmissionInit, AdmissionStep, PTL DEF Spec

-----------------------------------------------------------------------------
(* No lost wakeup, for one lane under one limit                            *)

LEMMA SetsFinite ==
  ASSUME TypeOK
  PROVE  /\ IsFiniteSet(woken) /\ Cardinality(woken) \in Nat
         /\ IsFiniteSet(Retrying) /\ Cardinality(Retrying) \in Nat
<1>1. woken \subseteq Requests /\ Retrying \subseteq Requests
  BY DEF TypeOK, Retrying
<1>2. QED
  BY <1>1, FS_Subset, FS_CardinalityType

\* What handing a notification on leaves behind, when the request that got it
\* before, or the releaser, is not linked itself.
LEMMA NotifyKeepsFutures ==
  ASSUME NEW ws, NEW wk, NEW r, FutureInv, NotifyOneOf(ws, wk),
         ws = waiters, wk = woken \ {r}, r \notin waiters
  PROVE  /\ permit' => waiters' = {}
         /\ waiters' \subseteq waiters
         /\ waiters' \cap woken' = {}
         /\ woken' \subseteq (woken \ {r}) \cup waiters
         /\ r \notin woken'
BY DEF NotifyOneOf, FutureInv

LEMMA DropKeepsFutures ==
  ASSUME NEW r \in Requests, FutureInv, DropNotified(r)
  PROVE  /\ permit' => waiters' = {}
         /\ waiters' \subseteq waiters \ {r}
         /\ waiters' \cap woken' = {}
         /\ woken' \subseteq (woken \ {r}) \cup waiters
         /\ r \notin woken'
         /\ ready' = ready \ {r}
<1>1. CASE r \in woken
  <2>1. r \notin waiters
    BY <1>1 DEF FutureInv
  <2>2. QED
    BY <1>1, <2>1, NotifyKeepsFutures DEF DropNotified
<1>2. CASE r \notin woken
  BY <1>2 DEF DropNotified, FutureInv
<1>3. QED
  BY <1>1, <1>2

LEMMA FutureStep ==
  ASSUME TypeOK, FutureInv, [Next]_vars
  PROVE  FutureInv'
<1>1. CASE UNCHANGED vars
  BY <1>1 DEF vars, FutureInv
<1>2. ASSUME NEW r \in Requests, Start(r) \/ TryNewOk(r) \/ TryNewFull(r) \/ Exit(r) \/ Sub(r)
      PROVE  FutureInv'
  BY <1>2 DEF Start, TryNewOk, TryNewFull, Exit, Sub, notifyVars, FutureInv, TypeOK
<1>3. ASSUME NEW r \in Requests, Enable(r)
      PROVE  FutureInv'
  BY <1>3 DEF Enable, FutureInv, TypeOK
<1>4. ASSUME NEW r \in Requests, Enter(r) \/ GiveUp(r)
      PROVE  FutureInv'
  <2>1. DropNotified(r)
    BY <1>4 DEF Enter, GiveUp
  <2>2. \A s \in Requests \ {r} : pc'[s] = pc[s]
    BY <1>4 DEF Enter, GiveUp, TypeOK
  <2>3. waiters \cup woken \cup ready \subseteq Requests
    BY DEF TypeOK
  <2>4. QED
    BY <2>1, <2>2, <2>3, DropKeepsFutures DEF FutureInv
<1>5. ASSUME NEW r \in Requests, Wake(r)
      PROVE  FutureInv'
  BY <1>5 DEF Wake, FutureInv, TypeOK
<1>6. ASSUME NEW r \in Requests, NotifyOne(r)
      PROVE  FutureInv'
  <2>1. r \notin waiters \cup woken \cup ready
    BY <1>6 DEF NotifyOne, FutureInv
  <2>2. woken = woken \ {r}
    BY <2>1
  <2>3. /\ permit' => waiters' = {}
        /\ waiters' \subseteq waiters
        /\ waiters' \cap woken' = {}
        /\ woken' \subseteq woken \cup waiters
    BY <1>6, <2>1, <2>2, NotifyKeepsFutures DEF NotifyOne
  <2>4. QED
    BY <1>6, <2>1, <2>3 DEF NotifyOne, FutureInv, TypeOK
<1>7. QED
  BY <1>1, <1>2, <1>3, <1>4, <1>5, <1>6 DEF Next, Progress

\* The free slots that the budget has to cover, and what covers them.
Free(r) == maximum[r] - pending_requests[LaneOf[r]]
Budget == Cardinality(woken) + Cardinality(Retrying)

\* Dropping a Notified keeps the notifications in flight, unless nobody waits.
LEMMA DropKeepsWoken ==
  ASSUME NEW r \in Requests, TypeOK, FutureInv, DropNotified(r), waiters' # {}
  PROVE  Cardinality(woken') = Cardinality(woken)
<1>1. CASE r \notin woken
  BY <1>1 DEF DropNotified
<1>2. CASE r \in woken
  <2>1. waiters # {}
    BY <1>2, DropKeepsFutures
  <2>2. PICK w \in waiters : woken' = (woken \ {r}) \cup {w}
    BY <1>2, <2>1 DEF DropNotified, NotifyOneOf
  <2>3. w \notin woken
    BY DEF FutureInv
  <2>4. /\ IsFiniteSet(woken \ {r})
        /\ Cardinality(woken \ {r}) = Cardinality(woken) - 1
        /\ Cardinality(woken) \in Nat
    BY <1>2, SetsFinite, CountOneLess
  <2>5. Cardinality((woken \ {r}) \cup {w}) = Cardinality(woken \ {r}) + 1
    BY <2>3, <2>4, CountOneMore
  <2>6. QED
    BY <2>2, <2>4, <2>5
<1>3. QED
  BY <1>1, <1>2

LEMMA BudgetStep ==
  ASSUME AdmissionInv, AdmissionInv', SingleLimit, FutureInv, FutureInv', WakeBudget, [Next]_vars
  PROVE  WakeBudget'
<1> SUFFICES ASSUME NEW q \in Requests, Parked(q)'
             PROVE  Free(q)' <= Budget'
  BY DEF WakeBudget, Free, Budget
<1>t. TypeOK /\ TypeOK'
  BY DEF AdmissionInv
<1>n. /\ Free(q) \in Int /\ Free(q)' \in Int
      /\ Cardinality(woken) \in Nat /\ Cardinality(woken)' \in Nat
      /\ Cardinality(Retrying) \in Nat /\ Cardinality(Retrying)' \in Nat
  <2>1. Cardinality(woken)' \in Nat /\ Cardinality(Retrying)' \in Nat
    <3>1. woken' \subseteq Requests /\ Retrying' \subseteq Requests
      BY <1>t DEF TypeOK, Retrying
    <3>2. QED
      BY <3>1, FS_Subset, FS_CardinalityType
  <2>2. QED
    BY <1>t, <2>1, SetsFinite DEF Free, TypeOK
<1>b. Parked(q) => Free(q) <= Cardinality(woken) + Cardinality(Retrying)
  BY DEF WakeBudget, Free
<1> USE <1>t DEF Budget
<1>1. CASE UNCHANGED vars
  <2>1. Retrying' = Retrying /\ woken' = woken /\ Parked(q) /\ Free(q)' = Free(q)
    BY <1>1 DEF vars, Retrying, Parked, Free
  <2>2. QED
    BY <1>b, <2>1
<1>2. ASSUME NEW r \in Requests, Start(r)
      PROVE  Free(q)' <= Budget'
  <2>1. q # r
    BY <1>2 DEF Start, Parked, TypeOK
  <2>2. Parked(q) /\ Free(q)' = Free(q) /\ woken' = woken
    BY <1>2, <2>1 DEF Start, Parked, Free, TypeOK, notifyVars
  <2>3. Retrying' = Retrying \cup {r} /\ r \notin Retrying
    BY <1>2 DEF Start, Retrying, TypeOK
  <2>4. Cardinality(Retrying') = Cardinality(Retrying) + 1
    BY <2>3, SetsFinite, CountOneMore
  <2>5. QED
    BY <1>b, <1>n, <2>2, <2>4
<1>3. ASSUME NEW r \in Requests, Enable(r)
      PROVE  Free(q)' <= Budget'
  <2>1. Parked(q) /\ Free(q)' = Free(q) /\ woken' = woken
    BY <1>3 DEF Enable, Parked, Free, TypeOK
  <2>2. Retrying' = Retrying
    BY <1>3 DEF Enable, Retrying, TypeOK
  <2>3. QED
    BY <1>b, <2>1, <2>2
<1>4. ASSUME NEW r \in Requests, TryNewOk(r)
      PROVE  Free(q)' <= Budget'
  <2>1. Parked(q) /\ woken' = woken
    BY <1>4 DEF TryNewOk, Parked, TypeOK, notifyVars
  <2>2. Free(q)' = Free(q) - 1
    BY <1>4 DEF TryNewOk, Free, SingleLimit, TypeOK
  <2>3. Retrying' = Retrying \ {r} /\ r \in Retrying
    BY <1>4 DEF TryNewOk, Retrying, TypeOK
  <2>4. Cardinality(Retrying') = Cardinality(Retrying) - 1
    BY <2>3, SetsFinite, CountOneLess
  <2>5. QED
    BY <1>b, <1>n, <2>1, <2>2, <2>4
<1>5. ASSUME NEW r \in Requests, TryNewFull(r)
      PROVE  Free(q)' <= Budget'
  <2>1. maximum[q] = maximum[r] /\ LaneOf[q] = LaneOf[r]
    <3>1. pc[q] # "idle" /\ pc[r] # "idle"
      BY <1>5 DEF TryNewFull, Parked, TypeOK
    <3>2. maximum[q] \in Limits[LaneOf[q]] /\ maximum[r] \in Limits[LaneOf[r]]
      BY <3>1 DEF AdmissionInv
    <3>3. QED
      BY <3>2 DEF SingleLimit
  <2>2. Free(q)' <= 0
    BY <1>5, <2>1 DEF TryNewFull, Free, TypeOK
  <2>3. QED
    BY <1>n, <2>2
<1>6. ASSUME NEW r \in Requests, Enter(r) \/ GiveUp(r)
      PROVE  Free(q)' <= Budget'
  <2>1. DropNotified(r)
    BY <1>6 DEF Enter, GiveUp
  <2>2. q # r /\ q \in waiters /\ waiters' # {}
    BY <2>1, DropKeepsFutures DEF Parked
  <2>3. Parked(q) /\ Free(q)' = Free(q)
    BY <1>6, <2>2 DEF Enter, GiveUp, Parked, Free, TypeOK
  <2>4. Cardinality(woken') = Cardinality(woken)
    BY <2>1, <2>2, DropKeepsWoken
  <2>5. Retrying' = Retrying
    BY <1>6 DEF Enter, GiveUp, Retrying, TypeOK
  <2>6. QED
    BY <1>b, <1>n, <2>3, <2>4, <2>5
<1>7. ASSUME NEW r \in Requests, Wake(r)
      PROVE  Free(q)' <= Budget'
  <2>1. Parked(q) /\ Free(q)' = Free(q)
    BY <1>7 DEF Wake, Parked, Free, TypeOK
  <2>2. Retrying' = Retrying \cup {r} /\ r \notin Retrying
    BY <1>7 DEF Wake, Retrying, TypeOK
  <2>3. Cardinality(Retrying') = Cardinality(Retrying) + 1
    BY <2>2, SetsFinite, CountOneMore
  <2>4. Cardinality(woken') >= Cardinality(woken) - 1
    <3>1. CASE r \in woken
      BY <1>7, <3>1, SetsFinite, CountOneLess DEF Wake
    <3>2. CASE r \notin woken
      BY <1>7, <1>n, <3>2 DEF Wake
    <3>3. QED
      BY <3>1, <3>2
  <2>5. QED
    BY <1>b, <1>n, <2>1, <2>3, <2>4
<1>8. ASSUME NEW r \in Requests, Exit(r)
      PROVE  Free(q)' <= Budget'
  <2>1. Parked(q) /\ Free(q)' = Free(q) /\ woken' = woken
    BY <1>8 DEF Exit, Parked, Free, TypeOK, notifyVars
  <2>2. Retrying' = Retrying
    BY <1>8 DEF Exit, Retrying, TypeOK
  <2>3. QED
    BY <1>b, <2>1, <2>2
<1>9. ASSUME NEW r \in Requests, Sub(r)
      PROVE  Free(q)' <= Budget'
  <2>1. Parked(q) /\ woken' = woken
    BY <1>9 DEF Sub, Parked, TypeOK, notifyVars
  <2>2. Free(q)' = Free(q) + 1
    BY <1>9 DEF Sub, Free, SingleLimit, TypeOK
  <2>3. Retrying' = Retrying \cup {r} /\ r \notin Retrying
    BY <1>9 DEF Sub, Retrying, TypeOK
  <2>4. Cardinality(Retrying') = Cardinality(Retrying) + 1
    BY <2>3, SetsFinite, CountOneMore
  <2>5. QED
    BY <1>b, <1>n, <2>1, <2>2, <2>4
<1>10. ASSUME NEW r \in Requests, NotifyOne(r)
       PROVE  Free(q)' <= Budget'
  <2>1. NotifyOneOf(waiters, woken) /\ q \in waiters'
    BY <1>10 DEF NotifyOne, Parked
  <2>2. waiters # {}
    BY <2>1 DEF NotifyOneOf
  <2>3. PICK w \in waiters : waiters' = waiters \ {w} /\ woken' = woken \cup {w}
    BY <2>1, <2>2 DEF NotifyOneOf
  <2>4. Parked(q) /\ Free(q)' = Free(q)
    BY <1>10, <2>1, <2>3 DEF NotifyOne, Parked, Free, TypeOK
  <2>5. w \notin woken
    BY DEF FutureInv
  <2>6. Cardinality(woken') = Cardinality(woken) + 1
    BY <2>3, <2>5, SetsFinite, CountOneMore
  <2>7. Retrying' = Retrying \ {r} /\ r \in Retrying
    BY <1>10 DEF NotifyOne, Retrying, TypeOK
  <2>8. Cardinality(Retrying') = Cardinality(Retrying) - 1
    BY <2>7, SetsFinite, CountOneLess
  <2>9. QED
    BY <1>b, <1>n, <2>4, <2>6, <2>8
<1>11. QED
  BY <1>1, <1>2, <1>3, <1>4, <1>5, <1>6, <1>7, <1>8, <1>9, <1>10 DEF Next, Progress

\* Acquisitions of one lane under one limit lose no wakeup: a parked request
\* whose lane has room is never left with nothing under way (acquire_until,
\* release).  With a second lane on the same Notify the run queue_two_lanes
\* refutes it.
THEOREM NoLostWakeup ==
  ASSUME SingleLimit
  PROVE  Spec => [](WakeInv /\ NoStrandedWaiter)
<1>1. Init => FutureInv /\ WakeBudget
  BY DEF Init, FutureInv, WakeBudget, Parked
<1>2. AdmissionInv /\ FutureInv /\ WakeBudget /\ [Next]_vars
        => AdmissionInv' /\ FutureInv' /\ WakeBudget'
  BY AdmissionStep, FutureStep, BudgetStep DEF AdmissionInv
<1>3. AdmissionInv /\ FutureInv /\ WakeBudget => WakeInv /\ NoStrandedWaiter
  <2> SUFFICES ASSUME AdmissionInv, FutureInv, WakeBudget,
                      NEW r \in Requests, Parked(r), HasRoom(r), woken = {}, Retrying = {}
               PROVE  FALSE
    BY DEF WakeInv, NoStrandedWaiter, WakeUnderWay, Retrying
  <2>1. Cardinality(woken) = 0 /\ Cardinality(Retrying) = 0
    BY FS_EmptySet
  <2>2. maximum[r] - pending_requests[LaneOf[r]] <= 0
    BY <2>1 DEF WakeBudget
  <2>3. QED
    BY <2>2 DEF AdmissionInv, TypeOK, HasRoom
<1>4. QED
  BY <1>1, <1>2, <1>3, AdmissionInit, PTL DEF Spec
=============================================================================
