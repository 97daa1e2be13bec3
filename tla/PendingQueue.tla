---------------------------- MODULE PendingQueue ----------------------------
(***************************************************************************)
(* Admission of public requests into one route's bounded dispatcher queue  *)
(* (PendingQueueTracker and PendingRequestSlot of the tunnel server).      *)
(*                                                                         *)
(* A route counts the queued requests of each lane in an atomic counter,   *)
(* but all lanes wait on ONE tokio Notify, slot_available.  A request that *)
(* finds its lane full parks on the Notify; whoever gives a slot back      *)
(* notifies one waiter.  Every access to a shared atomic, to the mutexed   *)
(* entries and to the Notify is a step of its own.                         *)
(*                                                                         *)
(* The identities of the entries and their start instants are abstracted:  *)
(* an entry is named after the request that owns the slot.  tokio's Notify *)
(* is external; it is modelled by its contract, and the waiter that        *)
(* notify_one picks is any waiter.                                         *)
(***************************************************************************)
EXTENDS Integers, FiniteSets

CONSTANTS
  Requests,     \* acquisition attempts, each runs acquire_until at most at a time
  Lanes,        \* RequestLane
  LaneOf,       \* LaneOf[r]: the lane classify_request_lane gives r
  Limits        \* Limits[l]: the maxima a request of lane l may read from the policy

ASSUME AdmissionAssumption ==
  /\ IsFiniteSet(Requests)
  /\ LaneOf \in [Requests -> Lanes]
  /\ Limits \in [Lanes -> SUBSET (Nat \ {0})]

VARIABLES
  pending_requests,  \* pending_requests[l]: the lane's AtomicUsize
  entries,           \* PendingQueueTracker.entries
  permit,            \* the permit a notify_one without a waiter stores
  waiters,           \* Notified futures linked in the Notify's list
  woken,             \* futures that notify_one took off the list, not polled yet
  ready,             \* futures that consumed the stored permit when enabled
  maximum,           \* the limit the request read for this acquisition
  pc                 \* where the request, or the owner of its slot, is

vars == <<pending_requests, entries, permit, waiters, woken, ready, maximum, pc>>

notifyVars == <<permit, waiters, woken, ready>>

PC == { "idle",       \* not acquiring
        "looping",    \* at the top of the loop in acquire_until
        "enabled",    \* its Notified is enabled, try_new comes next
        "parked",     \* awaits the Notified under timeout_at
        "entering",   \* counted, the tracker entry comes next
        "holding",    \* owns the PendingRequestSlot
        "exited",     \* release: entry removed
        "subbed" }    \* release: counter decremented, notify_one comes next

Counted == {"entering", "holding", "exited"}

TypeOK ==
  /\ pending_requests \in [Lanes -> Nat]
  /\ entries \subseteq Requests
  /\ permit \in BOOLEAN
  /\ waiters \subseteq Requests
  /\ woken \subseteq Requests
  /\ ready \subseteq Requests
  /\ maximum \in [Requests -> Nat]
  /\ pc \in [Requests -> PC]

Init ==
  /\ pending_requests = [l \in Lanes |-> 0]
  /\ entries = {}
  /\ permit = FALSE
  /\ waiters = {}
  /\ woken = {}
  /\ ready = {}
  /\ maximum = [r \in Requests |-> 0]
  /\ pc = [r \in Requests |-> "idle"]

-----------------------------------------------------------------------------
(* tokio::sync::Notify                                                     *)

\* notify_one: hand the notification to a waiter, or store it if there is none.
NotifyOneOf(ws, wk) ==
  \/ /\ ws = {}
     /\ permit' = TRUE
     /\ UNCHANGED waiters
     /\ woken' = wk
  \/ \E w \in ws :
       /\ waiters' = ws \ {w}
       /\ woken' = wk \cup {w}
       /\ UNCHANGED permit

\* Dropping a Notified unlinks it; a notification it received and did not use
\* goes to the next waiter, a stored permit it consumed is gone.
DropNotified(r) ==
  /\ ready' = ready \ {r}
  /\ IF r \in woken
       THEN NotifyOneOf(waiters, woken \ {r})
       ELSE /\ waiters' = waiters \ {r}
            /\ UNCHANGED <<permit, woken>>

-----------------------------------------------------------------------------
(* acquire_until                                                           *)

\* proxy_request reads the policy and starts an acquisition.
Start(r) ==
  /\ pc[r] = "idle"
  /\ \E m \in Limits[LaneOf[r]] : maximum' = [maximum EXCEPT ![r] = m]
  /\ pc' = [pc EXCEPT ![r] = "looping"]
  /\ UNCHANGED <<pending_requests, entries, notifyVars>>

\* notified() and enable(): take the stored permit or join the list.
Enable(r) ==
  /\ pc[r] = "looping"
  /\ IF permit
       THEN /\ permit' = FALSE
            /\ ready' = ready \cup {r}
            /\ UNCHANGED waiters
       ELSE /\ waiters' = waiters \cup {r}
            /\ UNCHANGED <<permit, ready>>
  /\ pc' = [pc EXCEPT ![r] = "enabled"]
  /\ UNCHANGED <<pending_requests, entries, woken, maximum>>

\* try_new, the fetch_update that finds room.
TryNewOk(r) ==
  /\ pc[r] = "enabled"
  /\ pending_requests[LaneOf[r]] < maximum[r]
  /\ pending_requests' = [pending_requests EXCEPT ![LaneOf[r]] = @ + 1]
  /\ pc' = [pc EXCEPT ![r] = "entering"]
  /\ UNCHANGED <<entries, notifyVars, maximum>>

\* try_new finds the lane full; the future is awaited.
TryNewFull(r) ==
  /\ pc[r] = "enabled"
  /\ ~ (pending_requests[LaneOf[r]] < maximum[r])
  /\ pc' = [pc EXCEPT ![r] = "parked"]
  /\ UNCHANGED <<pending_requests, entries, notifyVars, maximum>>

\* try_new registers the entry and acquire_until returns, dropping the Notified.
Enter(r) ==
  /\ pc[r] = "entering"
  /\ entries' = entries \cup {r}
  /\ DropNotified(r)
  /\ pc' = [pc EXCEPT ![r] = "holding"]
  /\ UNCHANGED <<pending_requests, maximum>>

\* timeout_at polls the Notified first: a notified request goes round the loop.
Wake(r) ==
  /\ pc[r] = "parked"
  /\ r \in woken \cup ready
  /\ woken' = woken \ {r}
  /\ ready' = ready \ {r}
  /\ pc' = [pc EXCEPT ![r] = "looping"]
  /\ UNCHANGED <<pending_requests, entries, permit, waiters, maximum>>

\* The deadline passes without a notification, or the client went away and the
\* handler's future is dropped where it waits.
GiveUp(r) ==
  /\ pc[r] = "parked"
  /\ DropNotified(r)
  /\ pc' = [pc EXCEPT ![r] = "idle"]
  /\ UNCHANGED <<pending_requests, entries, maximum>>

-----------------------------------------------------------------------------
(* PendingRequestSlot::release, called by the dispatcher or by Drop        *)

Exit(r) ==
  /\ pc[r] = "holding"
  /\ entries' = entries \ {r}
  /\ pc' = [pc EXCEPT ![r] = "exited"]
  /\ UNCHANGED <<pending_requests, notifyVars, maximum>>

\* Mutated form of Sub: without the released flag, Drop releases a second time.
SubTwice(r) ==
  /\ pc[r] = "exited"
  /\ pending_requests' = [pending_requests EXCEPT ![LaneOf[r]] = @ - 2]
  /\ pc' = [pc EXCEPT ![r] = "subbed"]
  /\ UNCHANGED <<entries, notifyVars, maximum>>

Sub(r) ==
  /\ pc[r] = "exited"
  /\ pending_requests' = [pending_requests EXCEPT ![LaneOf[r]] = @ - 1]
  /\ pc' = [pc EXCEPT ![r] = "subbed"]
  /\ UNCHANGED <<entries, notifyVars, maximum>>

\* Mutated form of NotifyOne: release tells nobody.
NotifyNobody(r) ==
  /\ pc[r] = "subbed"
  /\ pc' = [pc EXCEPT ![r] = "idle"]
  /\ UNCHANGED <<pending_requests, entries, notifyVars, maximum>>

NotifyOne(r) ==
  /\ pc[r] = "subbed"
  /\ NotifyOneOf(waiters, woken)
  /\ pc' = [pc EXCEPT ![r] = "idle"]
  /\ UNCHANGED <<pending_requests, entries, ready, maximum>>

-----------------------------------------------------------------------------
\* The steps a request or slot owner that runs will take.
Progress(r) ==
  \/ Enable(r) \/ TryNewOk(r) \/ TryNewFull(r) \/ Enter(r) \/ Wake(r)
  \/ Exit(r) \/ Sub(r) \/ NotifyOne(r)

Next == \E r \in Requests : Start(r) \/ Progress(r) \/ GiveUp(r)

Spec == Init /\ [][Next]_vars

\* The scheduler polls every task that can run, and a slot is given back: its
\* job is assigned, or abandoned at its deadline and swept by the dispatcher's
\* cleanup tick.  Nothing makes clients come or go.
FairSpec == Spec /\ \A r \in Requests : WF_vars(Progress(r))

-----------------------------------------------------------------------------
(* Properties                                                              *)

HoldersOf(l) == {r \in Requests : LaneOf[r] = l /\ pc[r] \in Counted}

\* The lane counter is exactly the number of requests that own a slot of that
\* lane, so no release is lost or repeated, and the tracker lists exactly the
\* requests whose slot is registered (try_new, release).
SlotAccounting ==
  /\ \A l \in Lanes : pending_requests[l] = Cardinality(HoldersOf(l))
  /\ entries = {r \in Requests : pc[r] = "holding"}

\* A lane never holds more slots than the largest limit a request was given for
\* it, however many acquisitions race (the fetch_update of try_new).
LaneBound ==
  \A l \in Lanes : \/ HoldersOf(l) = {}
                   \/ \E m \in Limits[l] : Cardinality(HoldersOf(l)) <= m

HasRoom(r) == pending_requests[LaneOf[r]] < maximum[r]

\* A request that waits with nothing under way that would wake it.
Parked(r) == pc[r] = "parked" /\ r \in waiters

\* Some request is past its wait, or a slot is being given back: a further
\* notification or retry is still to come.
WakeUnderWay ==
  \/ \E r \in Requests : pc[r] \in {"looping", "enabled", "subbed"}
  \/ woken # {}

\* No lost wakeup: a parked request whose lane has room is never left with
\* nothing under way that could notify it before its deadline (the enable before
\* try_new in acquire_until, the order sub-then-notify in release).
NoStrandedWaiter ==
  (\E r \in Requests : Parked(r) /\ HasRoom(r)) => WakeUnderWay

\* Under the same fairness, room in a lane does not stay beside a parked request
\* for ever: it is taken, or nobody waits for it any more.
RoomIsTaken ==
  ~ <>[](\E r \in Requests : Parked(r) /\ HasRoom(r))

-----------------------------------------------------------------------------
(* The inductive invariants behind the properties                          *)

\* What SlotAccounting and LaneBound rest on: a request that acquires or owns a
\* slot carries a limit of its lane.
AdmissionInv ==
  /\ TypeOK
  /\ SlotAccounting
  /\ LaneBound
  /\ \A r \in Requests : pc[r] # "idle" => maximum[r] \in Limits[LaneOf[r]]

\* All requests compete for one lane under one limit.
SingleLimit ==
  \A r, s \in Requests :
    /\ LaneOf[r] = LaneOf[s]
    /\ \A m, n \in Limits[LaneOf[r]] : m = n

Retrying == {r \in Requests : pc[r] \in {"looping", "enabled", "subbed"}}

\* A future in the Notify belongs to a request that has not dropped it, and is in
\* one place only; a permit is stored only while nobody is linked.
FutureInv ==
  /\ permit => waiters = {}
  /\ \A r \in waiters \cup woken \cup ready : pc[r] \in {"enabled", "parked", "entering"}
  /\ waiters \cap woken = {}
  /\ waiters \cap ready = {}

\* The slots free beside a parked request never outnumber the notifications
\* delivered and the retries and notifications still to come.
WakeBudget ==
  \A r \in Requests :
    Parked(r) =>
      maximum[r] - pending_requests[LaneOf[r]] <= Cardinality(woken) + Cardinality(Retrying)

WakeInv == FutureInv /\ WakeBudget
=============================================================================
